---- MODULE Spec2Model ----
(***************************************************************************)
(* Spotify-to-YouTube playlist converter: the conversion generator of      *)
(* app.py (generate_conversion_stream, initialize_clients, convert_route)  *)
(* and the YouTube client of src/youtube_client.py, as a state machine.    *)
(*                                                                         *)
(* Several conversion requests run in one process (Flask serves each       *)
(* request on its own thread) and share the two module-level handles       *)
(* spotify_handler and youtube_handler.  A step of a request is the code   *)
(* between two blocking provider calls.                                    *)
(***************************************************************************)
EXTENDS Integers, Sequences, FiniteSets, TLC

(* ----------------------------- bounds ---------------------------------- *)

\* Largest number of playable tracks the source provider returns to a
\* request served alone.
MaxTracks == 3

\* The same, for requests served concurrently.
MaxConcurrentTracks == 1

\* Number of distinct video ids the search provider may answer with.
MaxVideoIds == 1

\* The conversion requests of the process: request 1, served alone (Spec) or
\* together with request 2 (ConcurrentSpec).
Requests == {1, 2}
VideoIds == 1..MaxVideoIds

(* ----------------------------- strings --------------------------------- *)
\* Python strings whose characters matter (HTTP error bodies and the
\* substrings the code looks for in them) are sequences of one-character
\* strings.

UpperChars == <<"A","B","C","D","E","F","G","H","I","J","K","L","M",
                "N","O","P","Q","R","S","T","U","V","W","X","Y","Z">>
LowerChars == <<"a","b","c","d","e","f","g","h","i","j","k","l","m",
                "n","o","p","q","r","s","t","u","v","w","x","y","z">>

LowerChar(c) ==
    IF \E k \in 1..Len(UpperChars) : UpperChars[k] = c
    THEN LowerChars[CHOOSE k \in 1..Len(UpperChars) : UpperChars[k] = c]
    ELSE c

\* str.lower()
Lower(s) == [k \in 1..Len(s) |-> LowerChar(s[k])]

\* needle in hay
Contains(needle, hay) ==
    \E k \in 0..(Len(hay) - Len(needle)) :
        SubSeq(hay, k + 1, k + Len(needle)) = needle

S_quotaExceeded == <<"q","u","o","t","a","E","x","c","e","e","d","e","d">>
S_invalidSearchFilter ==
    <<"i","n","v","a","l","i","d","S","e","a","r","c","h","F","i","l","t","e","r">>
S_playlistTitleInvalid ==
    <<"p","l","a","y","l","i","s","t","T","i","t","l","e","I","n","v","a","l","i","d">>
S_videoNotFound == <<"v","i","d","e","o","N","o","t","F","o","u","n","d">>
S_playlistNotFound ==
    <<"p","l","a","y","l","i","s","t","N","o","t","F","o","u","n","d">>
S_forbidden == <<"f","o","r","b","i","d","d","e","n">>
S_videoAlreadyInPlaylist ==
    <<"v","i","d","e","o","A","l","r","e","a","d","y","I","n",
      "P","l","a","y","l","i","s","t">>
S_backendError == <<"b","a","c","k","e","n","d","E","r","r","o","r">>

(* ------------------------- provider answers ---------------------------- *)
\* A googleapiclient HttpError: e.resp.status and e.content.  The body of a
\* YouTube Data API error carries the error's reason; the model's body is
\* that reason between the quotes of the JSON field.

HttpError(status, reason, content) ==
    [kind |-> "HttpError", status |-> status, reason |-> reason, content |-> content]

QuotaExceededError ==
    HttpError(403, "quotaExceeded", <<"\"">> \o S_quotaExceeded \o <<"\"">>)
ForbiddenError ==
    HttpError(403, "forbidden", <<"\"">> \o S_forbidden \o <<"\"">>)
InvalidSearchFilterError ==
    HttpError(400, "invalidSearchFilter", <<"\"">> \o S_invalidSearchFilter \o <<"\"">>)
PlaylistTitleInvalidError ==
    HttpError(400, "playlistTitleInvalid", <<"\"">> \o S_playlistTitleInvalid \o <<"\"">>)
VideoAlreadyInPlaylistError ==
    HttpError(400, "videoAlreadyInPlaylist", <<"\"">> \o S_videoAlreadyInPlaylist \o <<"\"">>)
VideoNotFoundError ==
    HttpError(404, "videoNotFound", <<"\"">> \o S_videoNotFound \o <<"\"">>)
PlaylistNotFoundError ==
    HttpError(404, "playlistNotFound", <<"\"">> \o S_playlistNotFound \o <<"\"">>)
BackendError ==
    HttpError(500, "backendError", <<"\"">> \o S_backendError \o <<"\"">>)

\* Any other exception a request can end with (network failure, ...).
OtherError == [kind |-> "Exception", status |-> 0, reason |-> "exception", content |-> <<>>]
\* tenacity.RetryError, raised when the last allowed attempt failed.
RetryError == [kind |-> "RetryError", status |-> 0, reason |-> "retryError", content |-> <<>>]
\* TypeError raised by isinstance(e, <a function>).
TypeError == [kind |-> "TypeError", status |-> 0, reason |-> "typeError", content |-> <<>>]
NoError == [kind |-> "none", status |-> 0, reason |-> "", content |-> <<>>]

Raised(e) == e.kind # "none"

Errors ==
    {QuotaExceededError, ForbiddenError, InvalidSearchFilterError,
     PlaylistTitleInvalidError, VideoAlreadyInPlaylistError, VideoNotFoundError,
     PlaylistNotFoundError, BackendError, OtherError, RetryError, TypeError, NoError}

\* What search().list().execute() can do: answer with a list of video ids
\* (at most max_results = 1 of them) or fail.
SearchResponses ==
    {[kind |-> "items", ids |-> <<>>, err |-> NoError]}
    \cup {[kind |-> "items", ids |-> <<v>>, err |-> NoError] : v \in VideoIds}
    \cup {[kind |-> "error", ids |-> <<>>, err |-> e] :
            e \in {QuotaExceededError, InvalidSearchFilterError, BackendError, OtherError}}

\* What playlists().insert().execute() can do: answer with the new
\* playlist (the model hands out ids 1, 2, ...) or fail.
CreateResponses ==
    {[kind |-> "created", err |-> NoError]}
    \cup {[kind |-> "error", err |-> e] :
            e \in {QuotaExceededError, PlaylistTitleInvalidError, BackendError, OtherError}}

\* What playlistItems().insert().execute() can do.
AddResponses ==
    {[kind |-> "inserted", err |-> NoError]}
    \cup {[kind |-> "error", err |-> e] :
            e \in {QuotaExceededError, ForbiddenError, VideoAlreadyInPlaylistError,
                   VideoNotFoundError, PlaylistNotFoundError, BackendError, OtherError}}

(* ------------------- src/youtube_client.py: YouTubeClient -------------- *)

\* Attempts tenacity allows search_video_with_keywords (stop_after_attempt(2)).
SearchAttempts == 2

\* _get_authenticated_service on a client whose service object is
\* self_youtube: the existing service is returned while its credentials are
\* valid; otherwise the token is loaded or refreshed or the OAuth flow is run,
\* which the environment lets succeed (auth_ok) or not.  service: whether a
\* service object is returned; youtube: self.youtube afterwards.
GetAuthenticatedService(self_youtube, creds_valid, auth_ok) ==
    IF self_youtube /\ creds_valid THEN [service |-> TRUE, youtube |-> TRUE]
    ELSE IF auth_ok THEN [service |-> TRUE, youtube |-> TRUE]
    ELSE [service |-> FALSE, youtube |-> self_youtube]

\* The guard that opens search, create and add:
\*   if not self.youtube and not self._get_authenticated_service(): return
\* ready: whether the method goes on; youtube: self.youtube afterwards.
EnsureService(self_youtube, auth_ok) ==
    IF self_youtube THEN [ready |-> TRUE, youtube |-> TRUE]
    ELSE LET g == GetAuthenticatedService(self_youtube, FALSE, auth_ok)
         IN  [ready |-> g.service, youtube |-> g.youtube]

\* What the environment can let an authentication attempt inside
\* EnsureService do: nothing is attempted on a client that has its service.
AuthOutcomes(self_youtube) == IF self_youtube THEN {FALSE} ELSE BOOLEAN

\* error_content_str = str(e.content.decode() ...).lower(), computed once
\* for each error of the model.
LoweredContent == [e \in Errors |-> Lower(e.content)]
ErrorContentStr(e) == LoweredContent[e]

\* The quota test of the client's except clauses, on the lowered body.
ClientIsQuotaExceeded(e) ==
    e.status = 403 /\ Contains(S_quotaExceeded, ErrorContentStr(e))

\* A comprehension without its "if keyword" filter: the empty keyword gets a
\* query of its own, in its place.
KeywordQueriesUnfiltered(base_query, keywords) ==
    [k \in 1..Len(keywords) |-> <<base_query, keywords[k]>>]

\* A dict.fromkeys that is not applied: the list keeps its repetitions.
KeepRepetitions(qs) == qs

\* The query list of search_video_with_keywords; a query string is the
\* sequence of its parts (base query, then the keyword when there is one).
RECURSIVE KeywordQueries(_, _)
KeywordQueries(base_query, keywords) ==
    IF keywords = <<>> THEN <<>>
    ELSE (IF Head(keywords) # "" THEN << <<base_query, Head(keywords)>> >> ELSE <<>>)
         \o KeywordQueries(base_query, Tail(keywords))

PrioritizedQueries(base_query, keywords) ==
    << <<base_query, "Official">> >>
    \o KeywordQueries(base_query, keywords)
    \o (IF (\E k \in 1..Len(keywords) : keywords[k] = "") \/ keywords = <<>>
        THEN << <<base_query>> >> ELSE <<>>)

\* list(dict.fromkeys(qs)): the first occurrence of every query, in order.
RECURSIVE DictFromKeys(_)
DictFromKeys(qs) ==
    IF qs = <<>> THEN <<>>
    ELSE LET front == DictFromKeys(SubSeq(qs, 1, Len(qs) - 1))
             key == qs[Len(qs)]
         IN  IF \E k \in 1..Len(front) : front[k] = key THEN front
             ELSE Append(front, key)

UniqueQueries(base_query, keywords) ==
    DictFromKeys(PrioritizedQueries(base_query, keywords))

\* Except clauses that re-raise every error of a request.
SearchRequestRaisesErrors(resp) ==
    IF resp.kind = "items"
    THEN IF resp.ids # <<>> THEN "return" ELSE "continue"
    ELSE "raise"

\* A loop that does not stop at a response with videos.
SearchRequestSkipsHit(resp) == "continue"

\* What one request of the "for query_attempt in unique_queries" loop leads
\* to, by the provider's answer: the items are returned ("return"), the
\* exception leaves the function ("raise"), or the next query is tried
\* ("continue").
SearchRequest(resp) ==
    IF resp.kind = "items"
    THEN IF resp.ids # <<>> THEN "return" ELSE "continue"
    ELSE IF resp.err.kind = "HttpError"
    THEN IF ClientIsQuotaExceeded(resp.err) THEN "raise"
         ELSE IF resp.err.status = 400
                 /\ Contains(S_invalidSearchFilter, ErrorContentStr(resp.err))
         THEN "continue"
         ELSE "continue"
    ELSE "continue"

\* One pass of the loop over the queries qs, for every way the provider can
\* answer: the set of outcomes [ret: the list returned, exc: the exception
\* raised, tried: requests sent, quota: whether one of the requests was
\* answered quotaExceeded].
RECURSIVE SearchLoop(_)
SearchLoop(qs) ==
    IF qs = <<>> THEN {[ret |-> <<>>, exc |-> NoError, tried |-> 0, quota |-> FALSE]}
    ELSE {[ret |-> resp.ids, exc |-> NoError, tried |-> 1, quota |-> FALSE] :
             resp \in {x \in SearchResponses : SearchRequest(x) = "return"}}
         \cup {[ret |-> <<>>, exc |-> resp.err, tried |-> 1, quota |-> TRUE] :
                 resp \in {x \in SearchResponses : SearchRequest(x) = "raise"}}
         \cup {[o EXCEPT !.tried = @ + 1,
                         !.quota = @ \/ resp.err = QuotaExceededError] :
                 o \in SearchLoop(Tail(qs)),
                 resp \in {x \in SearchResponses : SearchRequest(x) = "continue"}}

\* The @retry of search_video_with_keywords: an HttpError leaving the body
\* makes tenacity call it again, and RetryError leaves after the last attempt.
RECURSIVE RetrySearch(_, _)
RetrySearch(qs, attempt) ==
    LET outs == SearchLoop(qs)
        http == {o \in outs : o.exc.kind = "HttpError"}
    IN  (outs \ http)
        \cup (IF http = {} THEN {}
              ELSE IF attempt < SearchAttempts THEN RetrySearch(qs, attempt + 1)
              ELSE {[o EXCEPT !.exc = RetryError] : o \in http})

\* search_video_with_keywords(base_query, keywords) on a client that is
\* ready (EnsureService) or not.
search_video_with_keywords(ready, base_query, keywords) ==
    IF ~ready THEN {[ret |-> <<>>, exc |-> NoError, tried |-> 0, quota |-> FALSE]}
    ELSE RetrySearch(UniqueQueries(base_query, keywords), 1)

\* What a caller can tell one outcome of the call from another by.
SearchResults(ready, base_query, keywords) ==
    {[ret |-> o.ret, exc |-> o.exc, quota |-> o.quota] :
        o \in search_video_with_keywords(ready, base_query, keywords)}

\* valid_privacy_statuses
ValidPrivacyStatuses == {"public", "private", "unlisted"}

\* A create_playlist that sends the privacy status it was given.
PrivacyStatusUnchecked(privacy_status) == privacy_status

\* The privacyStatus of the request body: the argument, or "private" when it
\* is not one of the valid ones.
PrivacyStatus(privacy_status) ==
    IF privacy_status \notin ValidPrivacyStatuses THEN "private" ELSE privacy_status

\* stop_after_attempt(3) of create_playlist and add_video_to_playlist
WriteAttempts == 3

\* The body of create_playlist for one provider answer; new_id is the id the
\* provider gives the playlist.  ret = 0 is None.
CreateBody(resp, new_id) ==
    IF resp.kind = "created" THEN [ret |-> new_id, exc |-> NoError]
    ELSE [ret |-> 0, exc |-> NoError]

\* The @retry of create_playlist and add_video_to_playlist:
\* retry_if_exception_type(is_retryable_youtube_error) tests
\* isinstance(e, is_retryable_youtube_error) on an exception leaving the body.
RetryWrite(out) ==
    IF Raised(out.exc) THEN [out EXCEPT !.exc = TypeError] ELSE out

create_playlist(ready, resp, new_id) ==
    IF ~ready THEN [ret |-> 0, exc |-> NoError]
    ELSE RetryWrite(CreateBody(resp, new_id))

\* The body of add_video_to_playlist for one provider answer.
AddBody(resp) ==
    IF resp.kind = "inserted" THEN [ret |-> TRUE, exc |-> NoError]
    ELSE IF resp.err.kind = "HttpError"
    THEN IF ClientIsQuotaExceeded(resp.err)
         THEN [ret |-> FALSE, exc |-> resp.err]
         ELSE IF resp.err.status = 404
                 /\ (Contains(S_videoNotFound, ErrorContentStr(resp.err))
                     \/ Contains(S_playlistNotFound, ErrorContentStr(resp.err)))
         THEN [ret |-> FALSE, exc |-> NoError]
         ELSE IF resp.err.status = 403 /\ Contains(S_forbidden, ErrorContentStr(resp.err))
         THEN [ret |-> FALSE, exc |-> NoError]
         ELSE IF resp.err.status = 400
                 /\ Contains(S_videoAlreadyInPlaylist, ErrorContentStr(resp.err))
         THEN [ret |-> TRUE, exc |-> NoError]
         ELSE [ret |-> FALSE, exc |-> NoError]
    ELSE [ret |-> FALSE, exc |-> NoError]

add_video_to_playlist(ready, resp) ==
    IF ~ready THEN [ret |-> FALSE, exc |-> NoError]
    ELSE RetryWrite(AddBody(resp))

(* ----------------------------- src/utils.py ---------------------------- *)

PlaylistUrl ==
    <<"h","t","t","p","s",":","/","/","o","p","e","n",".","s","p","o","t","i",
      "f","y",".","c","o","m","/","p","l","a","y","l","i","s","t","/","3","7",
      "i","9","d","Q","Z","F","1","D","X","c","B","W","I","G","o","Y","B","M",
      "5","M">>
AlbumUrl ==
    <<"h","t","t","p","s",":","/","/","o","p","e","n",".","s","p","o","t","i",
      "f","y",".","c","o","m","/","a","l","b","u","m","/","0","s","N","O","F",
      "9","W","D","w","h","W","u","n","N","A","H","P","D","3","q","j","c">>

\* The references a request can carry: none, and two of the module's own
\* test references.
Urls == {<<>>, PlaylistUrl, AlbumUrl}

DigitChars == <<"0","1","2","3","4","5","6","7","8","9">>

\* [a-zA-Z0-9]
IsAlnumChar(c) ==
    \/ \E k \in 1..Len(UpperChars) : c = UpperChars[k] \/ c = LowerChars[k]
    \/ \E k \in 1..Len(DigitChars) : c = DigitChars[k]

AllAlnum(s) == \A k \in 1..Len(s) : IsAlnumChar(s[k])

\* The {22} of both patterns.
IdLength == 22

S_playlistSlash == <<"p","l","a","y","l","i","s","t","/">>
S_playlistColon == <<"p","l","a","y","l","i","s","t",":">>

\* needle is in hay at position p.
OccursAt(needle, hay, p) ==
    /\ p + Len(needle) - 1 <= Len(hay)
    /\ SubSeq(hay, p, p + Len(needle) - 1) = needle

\* The positions where (?:playlist/|playlist:)([a-zA-Z0-9]{22}) matches.
MatchStarts(url) ==
    {p \in 1..Len(url) :
        /\ OccursAt(S_playlistSlash, url, p) \/ OccursAt(S_playlistColon, url, p)
        /\ p + Len(S_playlistSlash) + IdLength - 1 <= Len(url)
        /\ AllAlnum(SubSeq(url, p + Len(S_playlistSlash),
                           p + Len(S_playlistSlash) + IdLength - 1))}

\* None, as the result of extract_playlist_id_from_url.
NoId == <<>>

\* extract_playlist_id_from_url: group 1 of the leftmost match of re.search,
\* else the reference itself when re.fullmatch(r"[a-zA-Z0-9]{22}") accepts it.
extract_playlist_id_from_url(url) ==
    IF MatchStarts(url) # {}
    THEN LET p == CHOOSE m \in MatchStarts(url) : \A n \in MatchStarts(url) : m <= n
         IN  SubSeq(url, p + Len(S_playlistSlash), p + Len(S_playlistSlash) + IdLength - 1)
    ELSE IF Len(url) = IdLength /\ AllAlnum(url) THEN url
    ELSE NoId

IsWordChar(c) ==
    \/ \E k \in 1..Len(UpperChars) : c = UpperChars[k] \/ c = LowerChars[k]
    \/ \E k \in 1..Len(DigitChars) : c = DigitChars[k]
    \/ c = "_"

IsSpaceChar(c) == c \in {" ", "\t", "\n"}

\* re.sub(r'[^\w\s\-\(\)]', '', name)
IsSafeChar(c) == IsWordChar(c) \/ IsSpaceChar(c) \/ c \in {"-", "(", ")"}
RemoveUnsafe(name) == SelectSeq(name, IsSafeChar)

\* re.sub(r'\s+', ' ', name): of a run of whitespace only the last character
\* stays, as a space.
EndsRun(pair) == ~(IsSpaceChar(pair[1]) /\ IsSpaceChar(pair[2]))
CollapseSpaces(name) ==
    LET pairs == [k \in 1..Len(name) |->
                    <<name[k], IF k < Len(name) THEN name[k + 1] ELSE "">>]
        kept == SelectSeq(pairs, EndsRun)
    IN  [k \in 1..Len(kept) |-> IF IsSpaceChar(kept[k][1]) THEN " " ELSE kept[k][1]]

\* str.strip()
RECURSIVE Strip(_)
Strip(name) ==
    IF name = <<>> THEN <<>>
    ELSE IF IsSpaceChar(Head(name)) THEN Strip(Tail(name))
    ELSE IF IsSpaceChar(name[Len(name)]) THEN Strip(SubSeq(name, 1, Len(name) - 1))
    ELSE name

\* The length sanitize_filename truncates to.
MaxNameLen == 100

sanitize_filename(name) ==
    LET cleaned == Strip(CollapseSpaces(RemoveUnsafe(name)))
    IN  SubSeq(cleaned, 1, IF Len(cleaned) < MaxNameLen THEN Len(cleaned) ELSE MaxNameLen)

(* -------------------------------- app.py ------------------------------- *)

VARIABLES
    spotify_handler,   \* the global: 0 is None, else an index into spotify_clients
    youtube_handler,   \* the global: 0 is None, else an index into youtube_clients
    spotify_clients,   \* the SpotifyClient objects built so far: whether .sp is set
    youtube_clients,   \* the YouTubeClient objects built so far: whether .youtube is set
    yt_playlists,      \* number of playlists the destination provider has created
    req,               \* per request: position and locals of its generator
    last,              \* the provider call of the latest step and its answer
    invocation         \* a function of the modules called on its own: its
                       \* arguments, the requests it has sent and its result

vars == <<spotify_handler, youtube_handler, spotify_clients, youtube_clients,
          yt_playlists, req, last, invocation>>

\* search_keywords of generate_conversion_stream
search_keywords ==
    <<"official video", "official music video", "official audio", "lyrics", "audio", "">>

S_onYouTube == <<" ","(","o","n"," ","Y","o","u","T","u","b","e",")">>
S_andOthers == <<" ","a","n","d"," ","o","t","h","e","r","s">>
DefaultPlaylistName ==
    <<"M","y"," ","S","p","o","t","i","f","y"," ","P","l","a","y","l","i","s","t",
      " ","o","n"," ","Y","o","u","T","u","b","e">>

\* The names a request can ask for: none, blank, or one with an unsafe
\* character and a space before it.
RequestedNames == {<<>>, <<" ">>, <<" ","M","i","x","*">>}

\* spotipy.SpotifyException, raised by sp.playlist_items for an error answer
\* of the Web API.
SpotifyException ==
    [kind |-> "SpotifyException", status |-> 500, reason |-> "spotifyException",
     content |-> <<>>]

S_unknownArtist ==
    <<"U","n","k","n","o","w","n"," ","A","r","t","i","s","t">>
S_commaSpace == <<",", " ">>

\* The attempts tenacity allows _fetch_playlist_items_page.
FetchAttempts == 3
\* limit, the page size get_playlist_tracks asks for.
PageLimit == 100
\* The pages a playlist of the model has at most.
MaxPages == 2

\* An item of a page of sp.playlist_items: item['track'] is there or not
\* (track), and then has a type, a name (<<>>: none) and a list of artists,
\* each given by its name (<<>>: an artist without a name).
Item(track, type, name, artists) ==
    [track |-> track, type |-> type, name |-> name, artists |-> artists]

\* The name of the g-th item of the playlist.
TrackName(g) == <<"T", DigitChars[g + 1]>>

\* The items the provider can list, by kind, for the g-th place.
ItemKinds ==
    {"song", "duet", "local", "episode", "unnamed", "no_artists", "nameless_artist"}
SourceItem(kind, g) ==
    CASE kind = "song" -> Item(TRUE, "track", TrackName(g), << <<"A">> >>)
      [] kind = "duet" -> Item(TRUE, "track", TrackName(g), << <<"A">>, <<"B">> >>)
      [] kind = "local" -> Item(FALSE, "", <<>>, <<>>)
      [] kind = "episode" -> Item(TRUE, "episode", TrackName(g), << <<"A">> >>)
      [] kind = "unnamed" -> Item(TRUE, "track", <<>>, << <<"A">> >>)
      [] kind = "no_artists" -> Item(TRUE, "track", TrackName(g), <<>>)
      [] kind = "nameless_artist" -> Item(TRUE, "track", TrackName(g), << <<>>, <<>> >>)

\* The pages the provider can answer with, as the kinds of their items.
PageShapes ==
    {<<>>, <<"song">>, <<"song", "duet">>, <<"local", "song">>, <<"song", "episode">>,
     <<"unnamed", "song">>, <<"no_artists", "nameless_artist">>}

\* What sp.playlist_items can do for the page page_no when received items
\* were listed before it: answer with a page (its items, whether there is a
\* next page, the playlist's total) or fail.
PageResponses(page_no, received) ==
    {[kind |-> "page",
      items |-> [k \in 1..Len(shape) |-> SourceItem(shape[k], received + k)],
      next |-> next,
      total |-> received + Len(shape) + (IF next THEN 1 ELSE 0),
      err |-> NoError] :
        shape \in PageShapes, next \in (IF page_no < MaxPages THEN BOOLEAN ELSE {FALSE})}
    \cup {[kind |-> "error", items |-> <<>>, next |-> FALSE, total |-> 0, err |-> e] :
            e \in {SpotifyException, OtherError}}

\* ", ".join(names)
RECURSIVE Join(_)
Join(names) ==
    IF names = <<>> THEN <<>>
    ELSE IF Len(names) = 1 THEN names[1]
    ELSE names[1] \o S_commaSpace \o Join(Tail(names))

\* [artist['name'] for artist in track.get('artists', []) if artist.get('name')]
HasName(artist) == artist # <<>>
ArtistNames(artists) == SelectSeq(artists, HasName)

\* A filter without its type test: an episode is taken for a song.
ProcessItemAnyType(item) ==
    IF ~item.track THEN <<>>
    ELSE IF item.name # <<>> /\ item.artists # <<>>
    THEN LET artist_name_str == Join(ArtistNames(item.artists))
         IN  << <<item.name,
                  IF artist_name_str = <<>> THEN S_unknownArtist ELSE artist_name_str>> >>
    ELSE <<>>

\* The body of "for item in items": what one item adds to tracks_info.
ProcessItem(item) ==
    IF ~item.track THEN <<>>
    ELSE IF item.type # "track" THEN <<>>
    ELSE IF item.name # <<>> /\ item.artists # <<>>
    THEN LET artist_name_str == Join(ArtistNames(item.artists))
         IN  << <<item.name,
                  IF artist_name_str = <<>> THEN S_unknownArtist ELSE artist_name_str>> >>
    ELSE <<>>

RECURSIVE ProcessItems(_)
ProcessItems(items) ==
    IF items = <<>> THEN <<>>
    ELSE ProcessItem(Head(items)) \o ProcessItems(Tail(items))

\* A page request that is never made again.
NeverRetryPage(err, attempt) == "fail"

\* What a failed page request leads to: tenacity makes the request again
\* ("retry"), or the exception (RetryError after the last attempt, else the
\* exception itself) reaches the except clauses of get_playlist_tracks
\* ("fail").
AfterPageError(err, attempt) ==
    IF err.kind = "SpotifyException" /\ attempt < FetchAttempts THEN "retry" ELSE "fail"

\* The exception that then reaches get_playlist_tracks.
PageException(err) == IF err.kind = "SpotifyException" THEN RetryError ELSE err

\* What sp.playlist(id, fields="name,...") can give get_playlist_details:
\* no details (the lookup failed), a playlist without a name, a named one.
NoDetails == [found |-> FALSE, name |-> <<>>]
PlaylistDetails ==
    {NoDetails, [found |-> TRUE, name |-> <<>>],
     [found |-> TRUE, name |-> <<"H","i","t","s","!">>]}

\* The k-th (track_name, artist_name) pair of the source playlist.
Track(k) == << <<"T", DigitChars[k + 1]>>, <<"A">> >>

\* f"{track_name} {artist_name}"
BaseQuery(track) == track[1] \o <<" ">> \o track[2]

\* A fetch that does not look at the playlist id.
get_playlist_tracks_of_any_url(sp, url, max_tracks) ==
    IF ~sp THEN {<<>>}
    ELSE {[k \in 1..n |-> Track(k)] : n \in 0..max_tracks}

\* get_playlist_tracks: the lists it can return.  Without a client or a
\* playlist id the list is empty; otherwise the provider decides (an empty
\* list is an empty or fully filtered playlist, or a failed fetch).
get_playlist_tracks(sp, url, max_tracks) ==
    IF ~sp THEN {<<>>}
    ELSE IF extract_playlist_id_from_url(url) = NoId THEN {<<>>}
    ELSE {[k \in 1..n |-> Track(k)] : n \in 0..max_tracks}

\* get_playlist_details: None without a client, else what the provider gives.
get_playlist_details(sp) == IF ~sp THEN {NoDetails} ELSE PlaylistDetails

\* One entry of a request's trace: an event it yielded (ev_...), a call it
\* made (call_...) or time.sleep.  track: the track number i + 1 (0 outside
\* the loop); arg: the playlist id a call was given; val: the number an event
\* shows, or a call's result (the playlist id of a create, the number of
\* tracks fetched, 1 for a video found or added, 0 for none, -1 for an
\* exception).
Entry(kind, track, arg, val) == [kind |-> kind, track |-> track, arg |-> arg, val |-> val]
Event(kind, track, val) == Entry(kind, track, 0, val)
EndOfStream == Event("END_OF_STREAM", 0, 0)
Sleep == Entry("sleep", 0, 0, 0)

\* youtube_handler.search_video_with_keywords(base_query, search_keywords) for
\* the tracks a playlist can hold: the outcomes of the call, tabulated per
\* readiness of the client and base query.
TrackQueries ==
    {BaseQuery(Track(k)) : k \in (1..MaxTracks) \cup (1..MaxConcurrentTracks)}
SearchCalls ==
    {<<ready, base_query, SearchResults(ready, base_query, search_keywords)>> :
        ready \in BOOLEAN, base_query \in TrackQueries}
SearchCall(ready, base_query) ==
    (CHOOSE c \in SearchCalls : c[1] = ready /\ c[2] = base_query)[3]

\* No function has been called on its own.
NoInvocation == [op |-> "none", status |-> "returned"]

NoCall == [op |-> "none", answer |-> "", quota |-> FALSE]
Call(op, answer, quota) == [op |-> op, answer |-> answer, quota |-> quota]

\* A request that starts with a count left by an earlier one.
NewRequestWithCount ==
    [pc |-> "route",
     spotify_playlist_url |-> <<>>,
     youtube_playlist_name |-> <<>>,
     auth_client |-> 0,
     spotify_tracks |-> <<>>,
     playlist_details |-> NoDetails,
     final_youtube_playlist_name |-> <<>>,
     youtube_playlist_id |-> 0,
     added_count |-> 1,
     not_found_count |-> 0,
     failed_to_add_count |-> 0,
     i |-> 0,
     video_ids |-> <<>>,
     trace |-> <<>>]

NewRequest ==
    [pc |-> "route",
     spotify_playlist_url |-> <<>>,
     youtube_playlist_name |-> <<>>,
     auth_client |-> 0,
     spotify_tracks |-> <<>>,
     playlist_details |-> NoDetails,
     final_youtube_playlist_name |-> <<>>,
     youtube_playlist_id |-> 0,
     added_count |-> 0,
     not_found_count |-> 0,
     failed_to_add_count |-> 0,
     i |-> 0,
     video_ids |-> <<>>,
     trace |-> <<>>]

Init ==
    /\ spotify_handler = 0
    /\ youtube_handler = 0
    /\ spotify_clients = <<>>
    /\ youtube_clients = <<>>
    /\ yt_playlists = 0
    /\ req = [r \in Requests |-> NewRequest]
    /\ last = NoCall
    /\ invocation = NoInvocation

\* if not spotify_handler or not spotify_handler.sp
SpotifyAvailable == spotify_handler # 0 /\ spotify_clients[spotify_handler]
\* A test that takes no cached YouTube client to be usable.
YouTubeNeverCached == FALSE

\* if not youtube_handler or not youtube_handler.youtube
YouTubeAvailable == youtube_handler # 0 /\ youtube_clients[youtube_handler]

\* A generator that returns without the end-of-stream marker.
FinishWithoutMarker(rec, entries) ==
    [rec EXCEPT !.trace = @ \o entries, !.pc = "done"]

\* The generator yields the entries and returns.
Finish(rec, entries) ==
    [rec EXCEPT !.trace = @ \o entries \o <<EndOfStream>>, !.pc = "done"]

\* convert_route: a request arrives with its form fields, a reference of
\* urls and a name of names.
ConvertRoute(r, urls, names) ==
    /\ req[r].pc = "route"
    /\ \E url \in urls, name \in names :
         req' = [req EXCEPT ![r] =
                   IF url = <<>>
                   THEN Finish(@, <<Event("ev_url_required", 0, 0)>>)
                   ELSE [@ EXCEPT !.spotify_playlist_url = url,
                                  !.youtube_playlist_name = Strip(name),
                                  !.pc = "initialize"]]
    /\ last' = NoCall
    /\ UNCHANGED invocation
    /\ UNCHANGED <<spotify_handler, youtube_handler, spotify_clients,
                   youtube_clients, yt_playlists>>

\* initialize_clients, lines 48-58: the Spotify client is built when the
\* global is None, and the YouTube global is tested.
InitializeClients(r) ==
    /\ req[r].pc = "initialize"
    /\ \E sp_ok \in BOOLEAN :
         IF spotify_handler = 0
         THEN /\ spotify_clients' = Append(spotify_clients, sp_ok)
              /\ spotify_handler' = Len(spotify_clients) + 1
         ELSE UNCHANGED <<spotify_clients, spotify_handler>>
    /\ req' = [req EXCEPT ![r].pc = IF ~YouTubeAvailable THEN "construct" ELSE "fetch"]
    /\ last' = NoCall
    /\ UNCHANGED invocation
    /\ UNCHANGED <<youtube_handler, youtube_clients, yt_playlists>>

\* initialize_clients, lines 59-67: a new YouTube client replaces the
\* global and its secrets file is validated; a missing file raises, and the
\* generator reports it and ends.  Otherwise authentication starts on the
\* client the global names.
ConstructYouTube(r) ==
    /\ req[r].pc = "construct"
    /\ \E secrets_ok \in BOOLEAN :
         LET new_yt == Len(youtube_clients) + 1
         IN  /\ youtube_clients' = Append(youtube_clients, FALSE)
             /\ youtube_handler' = new_yt
             /\ req' = [req EXCEPT ![r] =
                          IF ~secrets_ok
                          THEN Finish(@, <<Event("ev_fatal_init", 0, 0)>>)
                          ELSE [@ EXCEPT !.pc = "authenticate", !.auth_client = new_yt]]
    /\ last' = NoCall
    /\ UNCHANGED invocation
    /\ UNCHANGED <<spotify_handler, spotify_clients, yt_playlists>>

\* The end of initialize_clients: _get_authenticated_service returns on the
\* client it was called on.  No service raises ConnectionError, which the
\* generator reports before it ends.
Authenticate(r) ==
    /\ req[r].pc = "authenticate"
    /\ \E creds_valid \in BOOLEAN, auth_ok \in BOOLEAN :
         LET c == req[r].auth_client
             g == GetAuthenticatedService(youtube_clients[c], creds_valid, auth_ok)
         IN  /\ youtube_clients' = [youtube_clients EXCEPT ![c] = g.youtube]
             /\ req' = [req EXCEPT ![r] =
                          IF g.service THEN [@ EXCEPT !.pc = "fetch"]
                          ELSE Finish(@, <<Event("ev_fatal_init", 0, 0)>>)]
             /\ last' = Call("authenticate", IF g.service THEN "ok" ELSE "failed", FALSE)
    /\ UNCHANGED invocation
    /\ UNCHANGED <<spotify_handler, youtube_handler, spotify_clients, yt_playlists>>

\* A generator that takes every fetch to have brought tracks.
TracksNeverEmpty(spotify_tracks) == FALSE

\* if not spotify_tracks:
NoTracks(spotify_tracks) == spotify_tracks = <<>>

\* Lines 120-140: the availability checks, then the fetch of the tracks.
FetchTracks(r, max_tracks) ==
    /\ req[r].pc = "fetch"
    /\ IF ~SpotifyAvailable
       THEN /\ req' = [req EXCEPT ![r] = Finish(@, <<Event("ev_no_spotify", 0, 0)>>)]
            /\ last' = NoCall
       ELSE IF ~YouTubeAvailable
       THEN /\ req' = [req EXCEPT ![r] = Finish(@, <<Event("ev_no_youtube", 0, 0)>>)]
            /\ last' = NoCall
       ELSE \E tracks \in get_playlist_tracks(spotify_clients[spotify_handler],
                                              req[r].spotify_playlist_url, max_tracks) :
              LET called == <<Event("ev_fetching", 0, 0),
                              Entry("call_get_tracks", 0, 0, Len(tracks))>>
              IN  /\ req' = [req EXCEPT ![r] =
                        IF NoTracks(tracks)
                        THEN Finish(@, called \o <<Event("ev_no_tracks", 0, 0)>>)
                        ELSE [@ EXCEPT !.spotify_tracks = tracks,
                                       !.trace = @ \o called
                                           \o <<Event("ev_found_tracks", 0, Len(tracks))>>,
                                       !.pc = "name"]]
                  /\ last' = Call("get_tracks", IF tracks = <<>> THEN "empty" ELSE "tracks", FALSE)
    /\ UNCHANGED invocation
    /\ UNCHANGED <<spotify_handler, youtube_handler, spotify_clients,
                   youtube_clients, yt_playlists>>

\* sanitize_filename on the names the generator builds, tabulated.
BuiltNames ==
    {d.name \o S_onYouTube : d \in PlaylistDetails}
        \cup {Track(1)[1] \o S_andOthers \o S_onYouTube}
SanitizedNames == {<<name, sanitize_filename(name)>> : name \in BuiltNames}
Sanitized(name) == (CHOOSE c \in SanitizedNames : c[1] = name)[2]

\* A naming without the elif of line 152: no playlist name, default name.
SuggestedNameWithoutTrack(url, details, tracks) ==
    IF extract_playlist_id_from_url(url) # NoId /\ details.found /\ details.name # <<>>
    THEN Sanitized(details.name \o S_onYouTube)
    ELSE DefaultPlaylistName

\* Lines 142-155: the name of the destination playlist.
SuggestedName(url, details, tracks) ==
    IF extract_playlist_id_from_url(url) # NoId
    THEN IF details.found /\ details.name # <<>>
         THEN Sanitized(details.name \o S_onYouTube)
         ELSE IF tracks # <<>>
         THEN Sanitized(tracks[1][1] \o S_andOthers \o S_onYouTube)
         ELSE DefaultPlaylistName
    ELSE DefaultPlaylistName

ChooseName(r) ==
    /\ req[r].pc = "name"
    /\ IF req[r].youtube_playlist_name # <<>>
       THEN /\ req' = [req EXCEPT ![r].final_youtube_playlist_name =
                                      req[r].youtube_playlist_name,
                                  ![r].pc = "create"]
            /\ last' = NoCall
       ELSE \E details \in
                  (IF extract_playlist_id_from_url(req[r].spotify_playlist_url) # NoId
                   THEN get_playlist_details(spotify_handler # 0
                                             /\ spotify_clients[spotify_handler])
                   ELSE {NoDetails}) :
              /\ req' = [req EXCEPT ![r] =
                           [@ EXCEPT !.playlist_details = details,
                                     !.final_youtube_playlist_name =
                                         SuggestedName(req[r].spotify_playlist_url, details,
                                                       req[r].spotify_tracks),
                                     !.trace = @ \o <<Entry("call_details", 0, 0,
                                                            IF details.found THEN 1 ELSE 0),
                                                      Event("ev_default_name", 0, 0)>>,
                                     !.pc = "create"]]
              /\ last' = Call("details", IF details.found THEN "found" ELSE "none", FALSE)
    /\ UNCHANGED invocation
    /\ UNCHANGED <<spotify_handler, youtube_handler, spotify_clients,
                   youtube_clients, yt_playlists>>

\* A generator that takes every create to have returned an id.
CreateNeverFailed(youtube_playlist_id) == FALSE

\* if not youtube_playlist_id:
CreateFailed(youtube_playlist_id) == youtube_playlist_id = 0

\* Lines 157-173: the destination playlist is created on the client the
\* global names now, and the counters start at zero.
CreatePlaylist(r) ==
    /\ req[r].pc = "create"
    /\ \E auth_ok \in AuthOutcomes(youtube_clients[youtube_handler]),
          resp \in CreateResponses :
         LET svc == EnsureService(youtube_clients[youtube_handler], auth_ok)
             out == create_playlist(svc.ready, resp, yt_playlists + 1)
             called == <<Event("ev_creating", 0, 0),
                         Entry("call_create", 0, 0, out.ret)>>
         IN  /\ youtube_clients' = [youtube_clients EXCEPT ![youtube_handler] = svc.youtube]
             /\ yt_playlists' = IF svc.ready /\ resp.kind = "created"
                                THEN yt_playlists + 1 ELSE yt_playlists
             /\ req' = [req EXCEPT ![r] =
                   IF Raised(out.exc)
                   THEN [@ EXCEPT !.trace = @ \o called, !.pc = "crashed"]
                   ELSE IF CreateFailed(out.ret)
                   THEN Finish(@, called \o <<Event("ev_create_failed", 0, 0)>>)
                   ELSE [@ EXCEPT !.youtube_playlist_id = out.ret,
                                  !.trace = @ \o called
                                      \o <<Event("ev_created", 0, out.ret),
                                           Event("ev_link", 0, out.ret)>>,
                                  !.added_count = 0,
                                  !.not_found_count = 0,
                                  !.failed_to_add_count = 0,
                                  !.i = 1,
                                  !.pc = "search"]]
             /\ last' = Call("create",
                             IF ~svc.ready THEN "not_ready"
                             ELSE IF resp.kind = "created" THEN "created"
                             ELSE resp.err.reason, FALSE)
    /\ UNCHANGED invocation
    /\ UNCHANGED <<spotify_handler, youtube_handler, spotify_clients>>

\* The quota test of the generator's except clauses:
\*   e.resp.status == 403 and "quotaExceeded" in error_content.lower()
AppIsQuotaExceeded(e) ==
    e.status = 403 /\ Contains(S_quotaExceeded, ErrorContentStr(e))

\* A loop left by "return": the generator ends where the loop ends.
ReturnFromLoop == "done"

\* Where the per-track loop leaves the generator, by a "break" or after the
\* last track: at the statements that follow it.
AfterLoop == "summary"

\* A track without a match, or whose add failed, that is not counted.
NotFoundNotCounted(rec) == rec
FailedNotCounted(rec) == rec

\* An added track that is not counted.
AddedNotCounted(rec) == rec

\* added_count += 1, not_found_count += 1, failed_to_add_count += 1
Added(rec) == [rec EXCEPT !.added_count = @ + 1]
NotFound(rec) == [rec EXCEPT !.not_found_count = @ + 1]

\* A failed add that is counted as not found as well.
FailedCountedTwice(rec) ==
    [rec EXCEPT !.failed_to_add_count = @ + 1, !.not_found_count = @ + 1]

FailedToAdd(rec) == [rec EXCEPT !.failed_to_add_count = @ + 1]

\* A generator that adds whatever the search returned.
AlwaysFound(video_ids) == TRUE

\* if video_ids:
Found(video_ids) == video_ids # <<>>

\* The end of an iteration that did not break: the next track, or the
\* statements after the loop.
\* A loop whose index does not move on: the track is looked up again.
RepeatIteration(rec) ==
    [rec EXCEPT !.trace = Append(@, Sleep), !.video_ids = <<>>, !.pc = "search"]

\* An iteration that ends without its time.sleep(0.5).
NextIterationNoDelay(rec) ==
    [rec EXCEPT !.i = IF @ < Len(rec.spotify_tracks) THEN @ + 1 ELSE @,
                !.video_ids = <<>>,
                !.pc = IF rec.i < Len(rec.spotify_tracks) THEN "search" ELSE AfterLoop]

NextIteration(rec) ==
    [rec EXCEPT !.trace = Append(@, Sleep),
                !.i = IF @ < Len(rec.spotify_tracks) THEN @ + 1 ELSE @,
                !.video_ids = <<>>,
                !.pc = IF rec.i < Len(rec.spotify_tracks) THEN "search" ELSE AfterLoop]

Break(rec, entries) ==
    [rec EXCEPT !.trace = @ \o entries, !.video_ids = <<>>, !.pc = AfterLoop]

\* Lines 178-213 and 242-246 for one outcome of the search call.
SearchStep(rec, out) ==
    LET searching == Event("ev_searching", rec.i, Len(rec.spotify_tracks))
        called == <<searching,
                    Entry("call_search", rec.i, 0,
                          IF Raised(out.exc) THEN -1
                          ELSE IF out.ret = <<>> THEN 0 ELSE 1)>>
    IN  IF out.exc.kind = "HttpError"
        THEN IF AppIsQuotaExceeded(out.exc)
             THEN Break(rec, called \o <<Event("ev_quota_search", rec.i, 0)>>)
             ELSE NextIteration(NotFound(
                    [rec EXCEPT !.trace = @ \o called
                                    \o <<Event("ev_api_error_search", rec.i, 0)>>]))
        ELSE IF Raised(out.exc)
        THEN NextIteration(NotFound(
               [rec EXCEPT !.trace = @ \o called
                               \o <<Event("ev_unexpected_search", rec.i, 0)>>]))
        ELSE IF Found(out.ret)
        THEN [rec EXCEPT !.video_ids = out.ret,
                         !.trace = @ \o called \o <<Event("ev_found_video", rec.i, 0)>>,
                         !.pc = "add"]
        ELSE NextIteration(NotFound(
               [rec EXCEPT !.trace = @ \o called \o <<Event("ev_not_found", rec.i, 0)>>]))

SearchTrack(r) ==
    /\ req[r].pc = "search"
    /\ IF ~YouTubeAvailable
       THEN /\ req' = [req EXCEPT ![r] =
                         Break(@, <<Event("ev_searching", @.i, Len(@.spotify_tracks)),
                                    Event("ev_unavailable", @.i, 0)>>)]
            /\ last' = NoCall
            /\ UNCHANGED youtube_clients
       ELSE \E auth_ok \in AuthOutcomes(youtube_clients[youtube_handler]) :
              LET svc == EnsureService(youtube_clients[youtube_handler], auth_ok)
                  base_query == BaseQuery(req[r].spotify_tracks[req[r].i])
              IN  \E out \in SearchCall(svc.ready, base_query) :
                    /\ youtube_clients' =
                           [youtube_clients EXCEPT ![youtube_handler] = svc.youtube]
                    /\ req' = [req EXCEPT ![r] = SearchStep(@, out)]
                    /\ last' = Call("search",
                                    IF ~svc.ready THEN "not_ready"
                                    ELSE IF Raised(out.exc) THEN out.exc.reason
                                    ELSE IF out.ret = <<>> THEN "none" ELSE "hit",
                                    out.quota)
    /\ UNCHANGED invocation
    /\ UNCHANGED <<spotify_handler, youtube_handler, spotify_clients, yt_playlists>>

\* Lines 215-241 and 246 for one outcome of the add call.
AddStep(rec, out) ==
    LET called == <<Entry("call_add", rec.i, rec.youtube_playlist_id,
                          IF Raised(out.exc) THEN -1 ELSE IF out.ret THEN 1 ELSE 0)>>
    IN  IF out.exc.kind = "HttpError"
        THEN IF AppIsQuotaExceeded(out.exc)
             THEN Break(rec, called \o <<Event("ev_quota_add", rec.i, 0)>>)
             ELSE NextIteration(FailedToAdd(
                    [rec EXCEPT !.trace = @ \o called
                                    \o <<Event("ev_api_error_add", rec.i, 0)>>]))
        ELSE IF Raised(out.exc)
        THEN NextIteration(FailedToAdd(
               [rec EXCEPT !.trace = @ \o called
                               \o <<Event("ev_unexpected_add", rec.i, 0)>>]))
        ELSE IF out.ret
        THEN NextIteration(Added(
               [rec EXCEPT !.trace = @ \o called \o <<Event("ev_added", rec.i, 0)>>]))
        ELSE NextIteration(FailedToAdd(
               [rec EXCEPT !.trace = @ \o called \o <<Event("ev_failed", rec.i, 0)>>]))

AddVideo(r) ==
    /\ req[r].pc = "add"
    /\ IF ~YouTubeAvailable
       THEN /\ req' = [req EXCEPT ![r] = Break(@, <<Event("ev_unavailable", @.i, 0)>>)]
            /\ last' = NoCall
            /\ UNCHANGED youtube_clients
       ELSE \E auth_ok \in AuthOutcomes(youtube_clients[youtube_handler]),
                 resp \in AddResponses :
              LET svc == EnsureService(youtube_clients[youtube_handler], auth_ok)
                  out == add_video_to_playlist(svc.ready, resp)
              IN  /\ youtube_clients' =
                         [youtube_clients EXCEPT ![youtube_handler] = svc.youtube]
                  /\ req' = [req EXCEPT ![r] = AddStep(@, out)]
                  /\ last' = Call("add",
                                  IF ~svc.ready THEN "not_ready"
                                  ELSE IF resp.kind = "inserted" THEN "inserted"
                                  ELSE resp.err.reason, FALSE)
    /\ UNCHANGED invocation
    /\ UNCHANGED <<spotify_handler, youtube_handler, spotify_clients, yt_playlists>>

\* A summary whose not_found line is unconditional.
SummaryAlwaysNotFound(rec) ==
    <<Event("ev_complete", 0, 0), Event("ev_sum_added", 0, rec.added_count),
      Event("ev_sum_not_found", 0, rec.not_found_count)>>
    \o (IF rec.failed_to_add_count > 0
        THEN <<Event("ev_sum_failed", 0, rec.failed_to_add_count)>> ELSE <<>>)
    \o (IF rec.youtube_playlist_id # 0
        THEN <<Event("ev_sum_link", 0, rec.youtube_playlist_id)>> ELSE <<>>)

\* Lines 248-257: the summary, then the end-of-stream marker.
SummaryEvents(rec) ==
    <<Event("ev_complete", 0, 0), Event("ev_sum_added", 0, rec.added_count)>>
    \o (IF rec.not_found_count > 0
        THEN <<Event("ev_sum_not_found", 0, rec.not_found_count)>> ELSE <<>>)
    \o (IF rec.failed_to_add_count > 0
        THEN <<Event("ev_sum_failed", 0, rec.failed_to_add_count)>> ELSE <<>>)
    \o (IF rec.youtube_playlist_id # 0
        THEN <<Event("ev_sum_link", 0, rec.youtube_playlist_id)>> ELSE <<>>)

Summary(r) ==
    /\ req[r].pc = "summary"
    /\ req' = [req EXCEPT ![r] = Finish(@, SummaryEvents(@))]
    /\ last' = NoCall
    /\ UNCHANGED invocation
    /\ UNCHANGED <<spotify_handler, youtube_handler, spotify_clients,
                   youtube_clients, yt_playlists>>

\* A step of request r, whose form fields come from urls and names and
\* whose source playlist holds at most max_tracks tracks.
Step(r, urls, names, max_tracks) ==
    \/ ConvertRoute(r, urls, names)
    \/ InitializeClients(r)
    \/ ConstructYouTube(r)
    \/ Authenticate(r)
    \/ FetchTracks(r, max_tracks)
    \/ ChooseName(r)
    \/ CreatePlaylist(r)
    \/ SearchTrack(r)
    \/ AddVideo(r)
    \/ Summary(r)

\* One request, served alone.
Next == Step(1, Urls, RequestedNames, MaxTracks)

Spec == Init /\ [][Next]_vars

\* Every provider call returns and the request's thread is scheduled.
FairSpec == Spec /\ WF_vars(Next)

\* The requests the concurrent specification serves name their playlist.
NamedRequests == RequestedNames \ {<<>>}

\* All requests, each on its own thread.
ConcurrentNext == \E r \in Requests : Step(r, Urls, NamedRequests, MaxConcurrentTracks)

ConcurrentSpec == Init /\ [][ConcurrentNext]_vars

\* The requests one after the other: a request is served when the ones
\* before it have ended.
SequentialNext ==
    \E r \in Requests :
      /\ \A q \in Requests : q < r => req[q].pc = "done"
      /\ Step(r, Urls, NamedRequests, MaxConcurrentTracks)

SequentialSpec == Init /\ [][SequentialNext]_vars

(* ------------------- the functions called on their own ----------------- *)
\* The client's methods and the utilities, called as the modules' __main__
\* blocks call them: one call at a time, with the requests it sends logged.

appvars == <<spotify_handler, youtube_handler, spotify_clients, youtube_clients,
             yt_playlists, req, last>>

\* The keyword lists of a search: none, one, one and the empty keyword, a
\* repeated one, and one that repeats the query the list starts with.
KeywordLists ==
    {<<>>, <<"lyrics">>, <<"lyrics", "">>, <<"", "lyrics">>, <<"audio", "audio">>,
     <<"Official">>}

\* The privacy statuses of a create: the valid ones, and two others.
PrivacyInputs == ValidPrivacyStatuses \cup {"Public", ""}

\* The references of extract_playlist_id_from_url: what precedes the
\* identifier, the identifier written, and what follows it.
WebPrefix ==
    <<"h","t","t","p","s",":","/","/","o","p","e","n",".","s","p","o","t","i",
      "f","y",".","c","o","m","/","p","l","a","y","l","i","s","t","/">>
UriPrefix ==
    <<"s","p","o","t","i","f","y",":","p","l","a","y","l","i","s","t",":">>
UserPrefix ==
    <<"h","t","t","p","s",":","/","/","o","p","e","n",".","s","p","o","t","i",
      "f","y",".","c","o","m","/","u","s","e","r","/","s","p","o","t","i","f",
      "y","/","p","l","a","y","l","i","s","t","/">>
AlbumPrefix ==
    <<"h","t","t","p","s",":","/","/","o","p","e","n",".","s","p","o","t","i",
      "f","y",".","c","o","m","/","a","l","b","u","m","/">>
Id22 ==
    <<"3","7","i","9","d","Q","Z","F","1","D","X","c","B","W","I","G","o","Y",
      "B","M","5","M">>
AlbumId22 ==
    <<"0","s","N","O","F","9","W","D","w","h","W","u","n","N","A","H","P","D",
      "3","q","j","c">>
Id23 ==
    <<"1","2","3","a","b","c","X","Y","Z","s","o","m","e","n","e","w","i","d",
      "1","2","3","4","5">>
Id21 ==
    <<"3","7","i","9","d","Q","Z","F","1","D","X","c","B","W","I","G","o","Y",
      "B","M","5">>
NotAnId ==
    <<"i","n","v","a","l","i","d","_","u","r","l","_","s","t","r","i","n",
      "g">>
QuerySuffix ==
    <<"?","s","i","=","q","w","e","r","t","y">>

References ==
    [prefix : {<<>>, WebPrefix, UriPrefix, UserPrefix, AlbumPrefix},
     token : {Id22, AlbumId22, Id23, Id21, NotAnId},
     suffix : {<<>>, QuerySuffix}]

ReferenceString(ref) == ref.prefix \o ref.token \o ref.suffix

\* How a logged request was answered.
AnswerOf(resp) == IF resp.kind = "error" THEN resp.err.reason ELSE resp.kind

\* extract_playlist_id_from_url(url)
CallExtract ==
    /\ invocation = NoInvocation
    /\ \E ref \in References :
         invocation' = [op |-> "extract", status |-> "returned", ref |-> ref,
                        ret |-> extract_playlist_id_from_url(ReferenceString(ref))]
    /\ UNCHANGED appvars

\* search_video_with_keywords(base_query, keywords) up to its loop.
CallSearch ==
    /\ invocation = NoInvocation
    /\ \E ready \in BOOLEAN, base_query \in TrackQueries, keywords \in KeywordLists :
         invocation' = [op |-> "search",
                        status |-> IF ready THEN "running" ELSE "returned",
                        ready |-> ready,
                        base_query |-> base_query, keywords |-> keywords,
                        qs |-> IF ready THEN UniqueQueries(base_query, keywords) ELSE <<>>,
                        pos |-> 1, attempt |-> 1, log |-> <<>>,
                        ret |-> <<>>, exc |-> NoError]
    /\ UNCHANGED appvars

\* One iteration of "for query_attempt in unique_queries": the request for
\* the query at pos and what its answer leads to; an HttpError that leaves
\* the function makes tenacity call it again.
SearchNextQuery ==
    /\ invocation.op = "search"
    /\ invocation.status = "running"
    /\ \E resp \in SearchResponses :
         LET sent == Append(invocation.log,
                            [query |-> invocation.qs[invocation.pos],
                             answer |-> AnswerOf(resp), ids |-> resp.ids])
             leads == SearchRequest(resp)
         IN  invocation' =
               IF leads = "return"
               THEN [invocation EXCEPT !.log = sent, !.status = "returned",
                                       !.ret = resp.ids]
               ELSE IF leads = "raise"
               THEN IF invocation.attempt < SearchAttempts
                    THEN [invocation EXCEPT !.log = sent, !.attempt = @ + 1, !.pos = 1]
                    ELSE [invocation EXCEPT !.log = sent, !.status = "raised",
                                            !.exc = RetryError]
               ELSE IF invocation.pos < Len(invocation.qs)
               THEN [invocation EXCEPT !.log = sent, !.pos = @ + 1]
               ELSE [invocation EXCEPT !.log = sent, !.status = "returned"]
    /\ UNCHANGED appvars

\* create_playlist(title, description, privacy_status)
CallCreate ==
    /\ invocation = NoInvocation
    /\ \E ready \in BOOLEAN, privacy_status \in PrivacyInputs, resp \in CreateResponses :
         LET out == create_playlist(ready, resp, 1)
         IN  invocation' =
               [op |-> "create",
                status |-> IF Raised(out.exc) THEN "raised" ELSE "returned",
                privacy_status |-> privacy_status,
                log |-> IF ready
                        THEN <<[privacyStatus |-> PrivacyStatus(privacy_status),
                                answer |-> AnswerOf(resp)]>>
                        ELSE <<>>,
                ret |-> out.ret, exc |-> out.exc]
    /\ UNCHANGED appvars

\* add_video_to_playlist(playlist_id, video_id)
CallAdd ==
    /\ invocation = NoInvocation
    /\ \E ready \in BOOLEAN, resp \in AddResponses :
         LET out == add_video_to_playlist(ready, resp)
         IN  invocation' =
               [op |-> "add",
                status |-> IF Raised(out.exc) THEN "raised" ELSE "returned",
                log |-> IF ready THEN <<[answer |-> AnswerOf(resp)]>> ELSE <<>>,
                ret |-> out.ret, exc |-> out.exc]
    /\ UNCHANGED appvars

\* The names sanitize_filename is given, each as a text followed by a
\* character repeated some times and a last text: short ones with unsafe
\* characters, whitespace runs, hyphens and parentheses, and ones longer
\* than MaxNameLen, one of them with a space as its MaxNameLen-th character.
Repeat(c, n) == [k \in 1..n |-> c]
SanitizeInput(head, fill, times, tail) ==
    [head |-> head, fill |-> fill, times |-> times, tail |-> tail]
SanitizeInputs ==
    {SanitizeInput(<<>>, "a", 0, <<>>),
     SanitizeInput(<<"*", "/">>, "a", 0, <<>>),
     SanitizeInput(<<"M","y"," ","M","i","x","!","*">>, "a", 0, <<>>),
     SanitizeInput(<<" "," ","a"," "," "," ","b"," ">>, "a", 0, <<>>),
     SanitizeInput(<<"(","a","-","b",")">>, "a", 0, <<>>),
     SanitizeInput(<<"a","\t","/"," ","b","_","1">>, "a", 0, <<>>),
     SanitizeInput(<<>>, "a", MaxNameLen + 20, <<>>),
     SanitizeInput(<<>>, "a", MaxNameLen - 1, <<" ", "b">>)}
NameOf(input) == input.head \o Repeat(input.fill, input.times) \o input.tail

\* sanitize_filename(name), and sanitize_filename of what it returned.
CallSanitize ==
    /\ invocation = NoInvocation
    /\ \E input \in SanitizeInputs :
         LET sanitized == sanitize_filename(NameOf(input))
         IN  invocation' = [op |-> "sanitize", status |-> "returned", input |-> input,
                            log |-> <<>>, ret |-> sanitized, exc |-> NoError,
                            again |-> sanitize_filename(sanitized)]
    /\ UNCHANGED appvars

\* get_playlist_tracks(playlist_url) up to its loop.
CallGetTracks ==
    /\ invocation = NoInvocation
    /\ \E sp \in BOOLEAN, url \in {NotAnId, PlaylistUrl} :
         invocation' =
           [op |-> "get_tracks",
            status |-> IF sp /\ extract_playlist_id_from_url(url) # NoId
                       THEN "running" ELSE "returned",
            sp |-> sp, url |-> url,
            offset |-> 0, attempt |-> 1,
            source |-> <<>>, tracks_info |-> <<>>, log |-> <<>>,
            ret |-> <<>>, exc |-> NoError]
    /\ UNCHANGED appvars

\* One request of "while True": _fetch_playlist_items_page under tenacity,
\* and for a page the rest of the loop body.  source collects the items the
\* provider listed, exc the exception the except clauses caught.
FetchPage ==
    /\ invocation.op = "get_tracks"
    /\ invocation.status = "running"
    /\ \E resp \in PageResponses(invocation.offset \div PageLimit + 1,
                                  Len(invocation.source)) :
         LET sent == Append(invocation.log,
                            [offset |-> invocation.offset,
                             attempt |-> invocation.attempt,
                             answer |-> IF resp.kind = "error" THEN resp.err.kind
                                        ELSE "page"])
             tracks_info == invocation.tracks_info \o ProcessItems(resp.items)
         IN  invocation' =
               IF resp.kind = "error"
               THEN IF AfterPageError(resp.err, invocation.attempt) = "retry"
                    THEN [invocation EXCEPT !.log = sent, !.attempt = @ + 1]
                    ELSE [invocation EXCEPT !.log = sent, !.status = "returned",
                                            !.exc = PageException(resp.err),
                                            !.ret = <<>>]
               ELSE IF \/ resp.items = <<>> /\ invocation.offset = 0 /\ resp.total = 0
                       \/ resp.items = <<>> /\ invocation.offset > 0
               THEN [invocation EXCEPT !.log = sent, !.status = "returned",
                                       !.ret = invocation.tracks_info]
               ELSE IF resp.next
               THEN [invocation EXCEPT !.log = sent,
                                       !.source = @ \o resp.items,
                                       !.tracks_info = tracks_info,
                                       !.offset = @ + PageLimit, !.attempt = 1]
               ELSE [invocation EXCEPT !.log = sent, !.status = "returned",
                                       !.source = @ \o resp.items,
                                       !.tracks_info = tracks_info,
                                       !.ret = tracks_info]
    /\ UNCHANGED appvars

ClientNext ==
    \/ CallExtract
    \/ CallSearch
    \/ SearchNextQuery
    \/ CallCreate
    \/ CallAdd
    \/ CallGetTracks
    \/ FetchPage
    \/ CallSanitize

ClientSpec == Init /\ [][ClientNext]_vars

(* ------------------------------ properties ----------------------------- *)

\* The positions of a trace that hold an entry of one of the kinds.
Positions(tr, kinds) == {k \in 1..Len(tr) : tr[k].kind \in kinds}

\* What one step of request r appends to its trace.
NewEntries(r) == SubSeq(req'[r].trace, Len(req[r].trace) + 1, Len(req'[r].trace))

\* Request r took the step.
Acted(r) == req'[r] # req[r]

LastEntry(tr) == tr[Len(tr)]

CountersUnchanged(r) ==
    /\ req'[r].added_count = req[r].added_count
    /\ req'[r].not_found_count = req[r].not_found_count
    /\ req'[r].failed_to_add_count = req[r].failed_to_add_count

\* What the calls recorded in a trace came to.
AddedIn(tr) == {k \in Positions(tr, {"call_add"}) : tr[k].val = 1}
FailedIn(tr) == {k \in Positions(tr, {"call_add"}) : tr[k].val # 1}
HitIn(tr) == {k \in Positions(tr, {"call_search"}) : tr[k].val = 1}
NotFoundIn(tr) == {k \in Positions(tr, {"call_search"}) : tr[k].val # 1}
CreatedIn(tr) == {k \in Positions(tr, {"call_create"}) : tr[k].val # 0}

AbortKinds == {"ev_unavailable", "ev_quota_search", "ev_quota_add"}

\* C1: when a search request made for track i is answered quotaExceeded, the
\* generator yields the fatal quota message and leaves the loop (no search and
\* no add follows), with the three counters as they were.
C1_SearchQuotaStopsRun ==
    [][\A r \in Requests :
         (req[r].pc = "search" /\ Acted(r) /\ last'.op = "search" /\ last'.quota)
         => /\ req'[r].pc = "summary"
            /\ LastEntry(req'[r].trace).kind = "ev_quota_search"
            /\ CountersUnchanged(r)]_vars

\* C2: when the insert for track i is answered quotaExceeded,
\* add_video_to_playlist raises instead of returning False, and the generator
\* yields the fatal quota message and leaves the loop without counting the
\* track as failed_to_add.
C2_AddQuotaStopsRun ==
    [][\A r \in Requests :
         (req[r].pc = "add" /\ Acted(r) /\ last'.op = "add"
          /\ last'.answer = "quotaExceeded")
         => /\ NewEntries(r)[1].kind = "call_add"
            /\ NewEntries(r)[1].val = -1
            /\ req'[r].pc = "summary"
            /\ LastEntry(req'[r].trace).kind = "ev_quota_add"
            /\ CountersUnchanged(r)]_vars

\* The summary that the calls recorded in a trace amount to.
SummaryOfCalls(tr) ==
    <<Event("ev_complete", 0, 0), Event("ev_sum_added", 0, Cardinality(AddedIn(tr)))>>
    \o (IF NotFoundIn(tr) # {}
        THEN <<Event("ev_sum_not_found", 0, Cardinality(NotFoundIn(tr)))>> ELSE <<>>)
    \o (IF FailedIn(tr) # {}
        THEN <<Event("ev_sum_failed", 0, Cardinality(FailedIn(tr)))>> ELSE <<>>)
    \o <<Event("ev_sum_link", 0, tr[CHOOSE k \in CreatedIn(tr) : TRUE].val), EndOfStream>>

C4_AlreadyInPlaylistIsSuccess ==
    [][\A r \in Requests :
         (req[r].pc = "add" /\ Acted(r) /\ last'.op = "add"
          /\ last'.answer = "videoAlreadyInPlaylist"
          /\ \E k \in AddedIn(req[r].trace) :
                req[r].trace[k].arg = req[r].youtube_playlist_id)
         => /\ NewEntries(r)[1].kind = "call_add"
            /\ NewEntries(r)[1].val = 1]_vars

\* C5: a run calls create_playlist at most once, and every add of the run
\* comes after that call returned an id and is given that id; a run whose
\* creation failed makes no add.
C5_OneCreateAddsTargetIt ==
    \A r \in Requests :
        LET tr == req[r].trace
        IN  /\ Cardinality(Positions(tr, {"call_create"})) <= 1
            /\ \A k \in Positions(tr, {"call_add"}) :
                 \E c \in CreatedIn(tr) : c < k /\ tr[k].arg = tr[c].val

C5_Witness ==
    /\ \A r \in Requests : AddedIn(req[r].trace) # {}
    /\ \E r \in Requests : Positions(req[r].trace, {"END_OF_STREAM"}) # {}

\* C6: when the fetch brings no playable track, the generator yields the
\* 'no tracks' event and the end-of-stream marker, and the run makes no
\* create, search or add call.
C6_NoTracksEndsRun ==
    \A r \in Requests :
        LET tr == req[r].trace
        IN  \A k \in Positions(tr, {"call_get_tracks"}) :
              tr[k].val = 0 =>
                /\ req[r].pc = "done"
                /\ SubSeq(tr, k + 1, Len(tr)) = <<Event("ev_no_tracks", 0, 0), EndOfStream>>
                /\ Positions(tr, {"call_create", "call_search", "call_add"}) = {}

C6_Witness ==
    \E r \in Requests :
        /\ req[r].pc = "done"
        /\ \E k \in Positions(req[r].trace, {"call_get_tracks"}) : req[r].trace[k].val = 0

\* C7: for each track the run makes at most one add call, and only after the
\* search of that track returned a video id; a track whose add failed gets no
\* second add.
C7_AddOnceAfterHit ==
    \A r \in Requests :
        LET tr == req[r].trace
        IN  \A k \in Positions(tr, {"call_add"}) :
              /\ \E j \in HitIn(tr) : j < k /\ tr[j].track = tr[k].track
              /\ \A k2 \in Positions(tr, {"call_add"}) :
                   tr[k2].track = tr[k].track => k2 = k

C7_Witness ==
    \E r \in Requests :
        LET tr == req[r].trace
        IN  /\ req[r].pc = "done"
            /\ \E k \in FailedIn(tr) :
                 \E j \in Positions(tr, {"call_search"}) : j > k

\* The tracks of a trace whose search returned a video id and whose add
\* returned True.
TracksAdded(tr) ==
    {tr[j].track : j \in HitIn(tr)} \cap {tr[k].track : k \in AddedIn(tr)}

\* C8: added equals the number of tracks whose search returned a video id and
\* whose add returned success, each track counting at most once, and that is
\* the number the summary shows.
C8_AddedCountsSuccesses ==
    \A r \in Requests :
        LET tr == req[r].trace
        IN  /\ req[r].added_count = Cardinality(TracksAdded(tr))
            /\ \A k \in Positions(tr, {"ev_sum_added"}) :
                 tr[k].val = Cardinality(TracksAdded(tr))

C8_Witness ==
    \E r \in Requests :
        /\ req[r].pc = "done"
        /\ req[r].added_count = 2
        /\ FailedIn(req[r].trace) # {}
        /\ Positions(req[r].trace, {"ev_sum_added"}) # {}

\* The end-of-stream marker is in the trace of a generator that has returned,
\* once and last, and in no other trace.
EndMarkerOnceAtEnd(r) ==
    Positions(req[r].trace, {"END_OF_STREAM"})
        = IF req[r].pc = "done" THEN {Len(req[r].trace)} ELSE {}

\* C9: every invocation of the generator eventually yields END_OF_STREAM,
\* exactly once, and yields nothing after it.
C9_EndOfStreamOnce ==
    /\ <>(req[1].pc = "done")
    /\ [](\A r \in Requests : EndMarkerOnceAtEnd(r))
    /\ [][\A r \in Requests : req[r].pc = "done" => req'[r] = req[r]]_vars

C9_Witness ==
    /\ req[1].pc = "done"
    /\ LastEntry(req[1].trace) = EndOfStream
    /\ Positions(req[1].trace, {"sleep"}) # {}
    /\ Positions(req[1].trace, {"ev_complete"}) # {}

\* The lines of the summary in a trace that ends at position k with the
\* marker: what follows 'Conversion Complete'.
SummaryLines(tr, k) == SubSeq(tr, k + 1, Len(tr) - 1)

\* C10: the summary shows the added line always, the not_found line exactly
\* when not_found > 0, the failed_to_add line exactly when failed_to_add > 0,
\* and the link exactly when the playlist was created; three tracks all added
\* show added = 3 and the link only, and two tracks of which the second has no
\* match show added = 1 and not_found = 1.
C10_SummaryLines ==
    \A r \in Requests :
        LET tr == req[r].trace
        IN  \A k \in Positions(tr, {"ev_complete"}) :
              LET lines == SummaryLines(tr, k)
                  n == Len(req[r].spotify_tracks)
              IN  /\ LastEntry(tr) = EndOfStream
                  /\ Positions(lines, {"ev_sum_added"}) = {1}
                  /\ lines[1].val = req[r].added_count
                  /\ (Positions(lines, {"ev_sum_not_found"}) # {})
                        <=> (req[r].not_found_count > 0)
                  /\ \A p \in Positions(lines, {"ev_sum_not_found"}) :
                        lines[p].val = req[r].not_found_count
                  /\ (Positions(lines, {"ev_sum_failed"}) # {})
                        <=> (req[r].failed_to_add_count > 0)
                  /\ \A p \in Positions(lines, {"ev_sum_failed"}) :
                        lines[p].val = req[r].failed_to_add_count
                  /\ (Positions(lines, {"ev_sum_link"}) # {}) <=> (CreatedIn(tr) # {})
                  /\ (n = 3 /\ Cardinality(AddedIn(tr)) = 3)
                        => lines = <<Event("ev_sum_added", 0, 3),
                                     Event("ev_sum_link", 0, req[r].youtube_playlist_id)>>
                  /\ (n = 2 /\ Cardinality(AddedIn(tr)) = 1 /\ FailedIn(tr) = {}
                        /\ Cardinality(NotFoundIn(tr)) = 1)
                        => lines = <<Event("ev_sum_added", 0, 1),
                                     Event("ev_sum_not_found", 0, 1),
                                     Event("ev_sum_link", 0, req[r].youtube_playlist_id)>>

C10_Witness ==
    \E r \in Requests :
        LET tr == req[r].trace
        IN  /\ req[r].pc = "done"
            /\ Len(req[r].spotify_tracks) = 2
            /\ \E k \in AddedIn(tr) : tr[k].track = 1
            /\ \E j \in NotFoundIn(tr) : tr[j].track = 2
            /\ Positions(tr, {"ev_sum_not_found"}) # {}
            /\ Positions(tr, {"ev_sum_failed"}) = {}

\* C11: a run whose playlist creation failed still emits the summary, with
\* the added line and without a destination link, before the end-of-stream
\* marker.
C11_CreateFailureStillSummarises ==
    \A r \in Requests :
        LET tr == req[r].trace
        IN  \A k \in Positions(tr, {"ev_create_failed"}) :
              /\ \E a \in Positions(tr, {"ev_sum_added"}) : a > k
              /\ Positions(tr, {"ev_sum_link"}) = {}
              /\ LastEntry(tr) = EndOfStream

\* The answers of the provider that are failures other than quota
\* exhaustion.
OtherFailures ==
    {e.reason : e \in Errors \ {QuotaExceededError, NoError, RetryError, TypeError}}

\* C12: a provider failure other than quota exhaustion, on a create, search
\* or add call, never ends the run early: the generator goes on to the next
\* track or to the summary.
C12_OtherFailuresNeverEndRun ==
    [][\A r \in Requests :
         (Acted(r) /\ last'.op \in {"create", "search", "add"}
          /\ last'.answer \in OtherFailures)
         => /\ req'[r].pc \in {"search", "add", "summary"}
            /\ Positions(NewEntries(r), AbortKinds \cup {"END_OF_STREAM"}) = {}]_vars

\* A call of search_video_with_keywords on a ready client that returns the
\* empty list has sent every candidate query.
NoMatchTriedAll ==
    \A base_query \in TrackQueries :
        \A o \in search_video_with_keywords(TRUE, base_query, search_keywords) :
            (o.ret = <<>> /\ ~Raised(o.exc))
                => o.tried = Len(UniqueQueries(base_query, search_keywords))

\* C13: when every candidate query of a track was tried without a hit, the
\* search returns the empty list without raising, and the generator adds 1 to
\* not_found, leaves added and failed_to_add as they were, makes no add call
\* and goes on to the next track.
C13_NoMatchCountsNotFound ==
    [][\A r \in Requests :
         (req[r].pc = "search" /\ Acted(r) /\ last'.op = "search"
          /\ last'.answer = "none")
         => /\ NoMatchTriedAll
            /\ \E k \in Positions(NewEntries(r), {"call_search"}) :
                 NewEntries(r)[k].val = 0
            /\ req'[r].not_found_count = req[r].not_found_count + 1
            /\ req'[r].added_count = req[r].added_count
            /\ req'[r].failed_to_add_count = req[r].failed_to_add_count
            /\ Positions(NewEntries(r), {"call_add"} \cup AbortKinds) = {}
            /\ IF req[r].i < Len(req[r].spotify_tracks)
               THEN req'[r].pc = "search" /\ req'[r].i = req[r].i + 1
               ELSE req'[r].pc = "summary"]_vars

C13_Witness ==
    /\ last.op = "search" /\ last.answer = "none"
    /\ \E r \in Requests :
         /\ req[r].pc = "search"
         /\ req[r].i = 2
         /\ req[r].not_found_count = 1
         /\ Positions(req[r].trace, {"call_add"}) = {}

\* C14: when the insert for a track is answered 404 videoNotFound or
\* playlistNotFound, add_video_to_playlist returns False without raising, and
\* the generator adds 1 to failed_to_add, leaves added and not_found as they
\* were and goes on to the next track.
C14_NotFoundInsertCountsFailed ==
    [][\A r \in Requests :
         (req[r].pc = "add" /\ Acted(r) /\ last'.op = "add"
          /\ last'.answer \in {"videoNotFound", "playlistNotFound"})
         => /\ NewEntries(r)[1].kind = "call_add"
            /\ NewEntries(r)[1].val = 0
            /\ req'[r].failed_to_add_count = req[r].failed_to_add_count + 1
            /\ req'[r].added_count = req[r].added_count
            /\ req'[r].not_found_count = req[r].not_found_count
            /\ Positions(NewEntries(r), AbortKinds) = {}
            /\ IF req[r].i < Len(req[r].spotify_tracks)
               THEN req'[r].pc = "search" /\ req'[r].i = req[r].i + 1
               ELSE req'[r].pc = "summary"]_vars

C14_Witness ==
    /\ last.op = "add" /\ last.answer \in {"videoNotFound", "playlistNotFound"}
    /\ \E r \in Requests :
         /\ req[r].pc = "search"
         /\ req[r].i = 2
         /\ req[r].failed_to_add_count = 1
         /\ LastEntry(req[r].trace) = Sleep

\* A reference the patterns are meant for: a bare identifier of 22
\* alphanumeric characters, or one written after "playlist/" or "playlist:".
Recognized(ref) ==
    /\ Len(ref.token) = IdLength
    /\ AllAlnum(ref.token)
    /\ \/ ref.prefix = <<>> /\ ref.suffix = <<>>
       \/ ref.prefix \in {WebPrefix, UriPrefix, UserPrefix}

\* C15: extract_playlist_id_from_url returns an id exactly when the reference
\* is a bare 22-character alphanumeric token or holds the playlist's
\* 22-character identifier after "playlist/" or "playlist:", and the id it
\* returns is the identifier written in the reference.
C15_ExtractsTheWrittenId ==
    invocation.op = "extract"
        => /\ (invocation.ret # NoId) <=> Recognized(invocation.ref)
           /\ invocation.ret # NoId => invocation.ret = invocation.ref.token

\* C16: the privacy status create_playlist sends is a valid one: the argument
\* when it is valid, "private" otherwise; and an argument that is not valid
\* neither makes the call raise nor fail when the provider creates the
\* playlist.
C16_PrivacyStatusCoerced ==
    invocation.op = "create"
        => /\ \A k \in 1..Len(invocation.log) :
                /\ invocation.log[k].privacyStatus \in ValidPrivacyStatuses
                /\ invocation.log[k].privacyStatus =
                     IF invocation.privacy_status \in ValidPrivacyStatuses
                     THEN invocation.privacy_status ELSE "private"
           /\ invocation.status = "returned"
           /\ \A k \in 1..Len(invocation.log) :
                invocation.log[k].answer = "created" => invocation.ret # 0

C16_Witness ==
    /\ invocation.op = "create"
    /\ invocation.privacy_status = "Public"
    /\ invocation.log = <<[privacyStatus |-> "private", answer |-> "created"]>>
    /\ invocation.ret # 0

\* C17: in a search_video_with_keywords call, a request answered
\* quotaExceeded is the last request of the call, and the call ends by raising
\* that error.
C17_SearchQuotaPropagates ==
    invocation.op = "search"
        => \A k \in 1..Len(invocation.log) :
             invocation.log[k].answer = "quotaExceeded"
                => /\ k = Len(invocation.log)
                   /\ invocation.status = "raised"
                   /\ invocation.exc = QuotaExceededError

\* C18: in a search_video_with_keywords call, a query whose first request
\* fails with a transient error (here HTTP 500) is requested again before the
\* next candidate query.
C18_TransientSearchErrorRetried ==
    invocation.op = "search"
        => \A k \in 1..Len(invocation.log) :
             (/\ invocation.log[k].answer = "backendError"
              /\ \A j \in 1..(k - 1) : invocation.log[j].query # invocation.log[k].query)
                => /\ k < Len(invocation.log) \/ invocation.status = "running"
                   /\ k < Len(invocation.log)
                        => invocation.log[k + 1].query = invocation.log[k].query
                   /\ k = Len(invocation.log)
                        => invocation.qs[invocation.pos] = invocation.log[k].query

\* C19: a create or insert request answered with a 5xx error is sent again,
\* and the call gives up only after 3 requests.
C19_ServerErrorRetried ==
    (invocation.op \in {"create", "add"} /\ invocation.log # <<>>
     /\ LastEntry(invocation.log).answer = "backendError")
        => /\ invocation.status = "returned"
           /\ Len(invocation.log) = WriteAttempts
           /\ invocation.op = "create" => invocation.ret = 0
           /\ invocation.op = "add" => invocation.ret = FALSE

\* C20: search_video_with_keywords requests the candidate queries in list
\* order, and the first response with a video ends the call, which returns
\* that response's videos: no request follows it.
C20_FirstSuccessWins ==
    invocation.op = "search"
        => /\ \A k \in 1..Len(invocation.log) :
                /\ invocation.log[k].query = invocation.qs[k]
                /\ invocation.log[k].ids # <<>>
                     => /\ k = Len(invocation.log)
                        /\ invocation.status = "returned"
                        /\ invocation.ret = invocation.log[k].ids
           /\ (invocation.status = "returned" /\ invocation.ret # <<>>)
                => /\ invocation.log # <<>>
                   /\ LastEntry(invocation.log).ids = invocation.ret

C20_Witness ==
    /\ invocation.op = "search"
    /\ invocation.status = "returned"
    /\ invocation.ret # <<>>
    /\ Len(invocation.log) = 2
    /\ Len(invocation.qs) = 3


\* The keywords that are not the empty string, in the order given.
IsNonEmpty(m) == m # ""
NonEmptyKeywords(keywords) == SelectSeq(keywords, IsNonEmpty)

\* The list as the construction writes it: the "Official" query, one query
\* per non-empty keyword, and the bare query when a keyword is empty or none
\* is given.
WrittenQueries(base_query, keywords) ==
    LET ne == NonEmptyKeywords(keywords)
    IN  << <<base_query, "Official">> >>
        \o [k \in 1..Len(ne) |-> <<base_query, ne[k]>>]
        \o (IF keywords = <<>> \/ (\E k \in 1..Len(keywords) : keywords[k] = "")
            THEN << <<base_query>> >> ELSE <<>>)

NoRepetition(qs) == \A i, j \in 1..Len(qs) : qs[i] = qs[j] => i = j

FirstPosition(qs, q) == CHOOSE i \in 1..Len(qs) : qs[i] = q /\ \A j \in 1..(i - 1) : qs[j] # q

\* qs holds every query of written once, at the rank of its first occurrence.
FirstOccurrencesOf(qs, written) ==
    /\ NoRepetition(qs)
    /\ {qs[i] : i \in 1..Len(qs)} = {written[i] : i \in 1..Len(written)}
    /\ \A i, j \in 1..Len(qs) :
         i < j => FirstPosition(written, qs[i]) < FirstPosition(written, qs[j])

Searching == invocation.op = "search" /\ invocation.ready

\* C21 as stated: the candidate list is the "Official" query, then one query
\* per non-empty keyword in the given order, then the bare query if and only
\* if a keyword is empty or no keyword is given.
C21_ListIsAsWritten ==
    Searching => invocation.qs = WrittenQueries(invocation.base_query, invocation.keywords)

\* C21, amended: the candidate list holds the queries of that construction
\* without repetition, each at the rank of its first occurrence; it starts
\* with the "Official" query, and the bare query is in it (and then last) if
\* and only if a keyword is empty or no keyword is given.
C21_ListIsAsWrittenOnce ==
    Searching =>
      LET qs == invocation.qs
          base_query == invocation.base_query
          keywords == invocation.keywords
          bare == keywords = <<>> \/ (\E k \in 1..Len(keywords) : keywords[k] = "")
      IN  /\ FirstOccurrencesOf(qs, WrittenQueries(base_query, keywords))
          /\ qs[1] = <<base_query, "Official">>
          /\ bare <=> (\E i \in 1..Len(qs) : qs[i] = <<base_query>>)
          /\ bare => qs[Len(qs)] = <<base_query>>
          /\ \A i \in 1..Len(qs) : qs[i] # <<base_query, "">>

\* A search whose first keyword is the empty one: the bare query comes last.
C21_Witness ==
    /\ Searching
    /\ invocation.keywords = <<"", "lyrics">>
    /\ Len(invocation.qs) = 3


\* C22: the candidate list holds no query twice and keeps the queries in the
\* order of their first occurrence in the list as built, and no query is sent
\* to the search API twice during one search.
C22_NoQueryTwice ==
    Searching =>
      LET qs == invocation.qs
          built == PrioritizedQueries(invocation.base_query, invocation.keywords)
          log == invocation.log
      IN  /\ NoRepetition(qs)
          /\ \A k \in 1..Len(built) : \E i \in 1..Len(qs) : qs[i] = built[k]
          /\ \A i, j \in 1..Len(qs) :
               i < j => FirstPosition(built, qs[i]) < FirstPosition(built, qs[j])
          /\ \A i, j \in 1..Len(log) : log[i].query = log[j].query => i = j

\* A search with a repeated keyword that has sent every candidate.
C22_Witness ==
    /\ Searching
    /\ invocation.keywords = <<"audio", "audio">>
    /\ invocation.status = "returned"
    /\ Len(invocation.log) = 2
    /\ invocation.ret = <<>>


\* C23: a request answered with the malformed-query error (400,
\* invalidSearchFilter) is not sent again: the request that follows it is the
\* one for the next candidate, and when it was the last candidate the search
\* returns the empty list; the search never ends with an exception.
C23_MalformedQuerySkipped ==
    Searching =>
      LET qs == invocation.qs
          log == invocation.log
      IN  \A k \in 1..Len(log) :
            log[k].answer = "invalidSearchFilter" =>
              /\ invocation.status # "raised"
              /\ invocation.exc = NoError
              /\ log[k].query = qs[k]
              /\ k < Len(log) => log[k + 1].query = qs[k + 1]
              /\ k = Len(log) =>
                    \/ invocation.status = "running" /\ invocation.pos = k + 1
                    \/ /\ invocation.status = "returned"
                       /\ k = Len(qs)
                       /\ invocation.ret = <<>>

\* The first candidate was answered invalidSearchFilter and the second one
\* found a video, which the search returned.
C23_Witness ==
    /\ Searching
    /\ Len(invocation.log) = 2
    /\ invocation.log[1].answer = "invalidSearchFilter"
    /\ invocation.log[2].answer = "items"
    /\ invocation.status = "returned"
    /\ invocation.ret # <<>>


\* C24: in the trace of a run the source fetch comes before the creation and
\* the creation before every search; the k-th search is the one of track k
\* and directly follows the "searching k/n" event; an add comes after the
\* search of its track, which found a video; every track has at most one
\* search and one add, and nothing of a track comes after an entry of a
\* later track.
C24_OperationsInOrder ==
    \A r \in DOMAIN req :
      LET tr == req[r].trace
          fetches == Positions(tr, {"call_get_tracks"})
          creates == Positions(tr, {"call_create"})
          searches == Positions(tr, {"call_search"})
          adds == Positions(tr, {"call_add"})
      IN  /\ Cardinality(fetches) <= 1 /\ Cardinality(creates) <= 1
          /\ \A c \in creates : \E f \in fetches : f < c
          /\ \A s \in searches : \E c \in creates : c < s /\ tr[c].val # 0
          /\ \A s \in searches :
               /\ tr[s].track = Cardinality({t \in searches : t <= s})
               /\ tr[s].track \in 1..Len(req[r].spotify_tracks)
               /\ tr[s - 1].kind = "ev_searching" /\ tr[s - 1].track = tr[s].track
          /\ \A a \in adds :
               /\ \E s \in searches : s < a /\ tr[s].track = tr[a].track /\ tr[s].val = 1
               /\ \A b \in adds : tr[a].track = tr[b].track => a = b
          /\ \A j, k \in 1..Len(tr) :
               (j < k /\ tr[j].track > 0 /\ tr[k].track > 0) => tr[j].track <= tr[k].track

\* A finished run that added the first track and went on to search the
\* second and the third.
C24_Witness ==
    LET tr == req[1].trace
    IN  /\ req[1].pc = "done"
        /\ \E a, s, t \in 1..Len(tr) :
             /\ a < s /\ s < t
             /\ tr[a].kind = "call_add" /\ tr[a].track = 1
             /\ tr[s].kind = "call_search" /\ tr[s].track = 2
             /\ tr[t].kind = "call_search" /\ tr[t].track = 3


\* The events that end an iteration which is not an abort.
IterationEndKinds ==
    {"ev_added", "ev_failed", "ev_api_error_add", "ev_unexpected_add",
     "ev_not_found", "ev_api_error_search", "ev_unexpected_search"}

\* C25: the event that ends an iteration other than an abort is followed by
\* one delay and then by the next track's "searching" event or the summary;
\* there are as many delays as such iterations, and each "searching" event
\* after the first and each summary not reached by an abort comes right after
\* one delay.
C25_OneDelayPerIteration ==
    \A r \in DOMAIN req :
      LET tr == req[r].trace
          ends == Positions(tr, IterationEndKinds)
          sleeps == Positions(tr, {"sleep"})
      IN  /\ Cardinality(sleeps) = Cardinality(ends)
          /\ \A k \in ends :
               /\ k + 1 \in sleeps
               /\ k + 2 <= Len(tr) =>
                     /\ tr[k + 2].kind \in {"ev_searching", "ev_complete"}
                     /\ tr[k + 2].kind = "ev_searching" => tr[k + 2].track = tr[k].track + 1
          /\ \A k \in sleeps : k - 1 \in ends
          /\ \A p \in Positions(tr, {"ev_searching", "ev_complete"}) :
               (tr[p].kind = "ev_complete" \/ tr[p].track > 1) =>
                 \/ p - 1 \in sleeps
                 \/ tr[p].kind = "ev_complete" /\ tr[p - 1].kind \in AbortKinds

\* A finished run of three tracks: added, not found, failed to add, each
\* followed by its delay.
C25_Witness ==
    LET tr == req[1].trace
    IN  /\ req[1].pc = "done"
        /\ Cardinality(Positions(tr, {"sleep"})) = 3
        /\ Positions(tr, {"ev_added"}) # {}
        /\ Positions(tr, {"ev_not_found"}) # {}
        /\ Positions(tr, {"ev_failed"}) # {}


\* get_playlist_tracks has returned the list of a fetch that did not fail.
Fetched ==
    /\ invocation.op = "get_tracks"
    /\ invocation.status = "returned"
    /\ invocation.exc = NoError

InList(list, x) == \E i \in 1..Len(list) : list[i] = x

\* The item is a song with a name.
NamedSong(item) == item.track /\ item.type = "track" /\ item.name # <<>>

\* C26: every song of the source that has a name but no artist with a name
\* (no artist at all, or only artists without a name) is in the list
\* get_playlist_tracks returns, with "Unknown Artist" as its artist.
C26_UnknownArtistKept ==
    Fetched =>
      \A k \in 1..Len(invocation.source) :
        LET item == invocation.source[k]
        IN  (NamedSong(item) /\ \A a \in 1..Len(item.artists) : item.artists[a] = <<>>)
              => InList(invocation.ret, <<item.name, S_unknownArtist>>)


\* The place in the source of the item with the name.
SourcePosition(source, name) == CHOOSE k \in 1..Len(source) : source[k].name = name

\* C27: the list of a fetch that did not fail holds songs of the source
\* only (items with a track object, of type "track", with a name), in the
\* order the pages listed them, each once, and every named song with an
\* artist list is in it whatever entries were dropped around it.
C27_OrderedSongsOfSource ==
    Fetched =>
      LET source == invocation.source
          ret == invocation.ret
      IN  /\ \A i \in 1..Len(ret) :
               \E k \in 1..Len(source) :
                 /\ source[k].name = ret[i][1]
                 /\ NamedSong(source[k])
          /\ \A i, j \in 1..Len(ret) :
               i < j => SourcePosition(source, ret[i][1]) < SourcePosition(source, ret[j][1])
          /\ \A k \in 1..Len(source) :
               (NamedSong(source[k]) /\ source[k].artists # <<>>) =>
                 \E i \in 1..Len(ret) : ret[i][1] = source[k].name

\* Two pages, each with a song and an entry that is dropped: the two songs
\* are returned, in their order.
C27_Witness ==
    /\ Fetched
    /\ invocation.offset = PageLimit
    /\ Len(invocation.source) = 4
    /\ ~invocation.source[1].track
    /\ invocation.source[4].type = "episode"
    /\ invocation.ret = << <<TrackName(2), <<"A">> >>, <<TrackName(3), <<"A">> >> >>


\* C28: a page request answered with a SpotifyException is made again, for
\* the same page, until it has been made FetchAttempts times; when the last
\* of them fails too, get_playlist_tracks returns the empty list, whatever
\* it had collected, which is the list the run reports as "no tracks".
C28_PageRetriedThenEmpty ==
    invocation.op = "get_tracks" =>
      LET log == invocation.log
      IN  \A k \in 1..Len(log) :
            /\ log[k].attempt \in 1..FetchAttempts
            /\ (log[k].answer = "SpotifyException" /\ log[k].attempt < FetchAttempts) =>
                 /\ k < Len(log) =>
                       /\ log[k + 1].offset = log[k].offset
                       /\ log[k + 1].attempt = log[k].attempt + 1
                 /\ k = Len(log) =>
                       /\ invocation.status = "running"
                       /\ invocation.offset = log[k].offset
                       /\ invocation.attempt = log[k].attempt + 1
            /\ (log[k].answer = "SpotifyException" /\ log[k].attempt = FetchAttempts) =>
                 /\ k = Len(log)
                 /\ k >= FetchAttempts
                 /\ \A a \in 1..FetchAttempts :
                      /\ log[k - FetchAttempts + a].attempt = a
                      /\ log[k - FetchAttempts + a].offset = log[k].offset
                 /\ invocation.status = "returned"
                 /\ invocation.ret = <<>>
                 /\ NoTracks(invocation.ret)

\* The first page gave a song, the three requests for the second page
\* failed, and the empty list was returned.
C28_Witness ==
    /\ invocation.op = "get_tracks"
    /\ invocation.status = "returned"
    /\ invocation.exc = RetryError
    /\ invocation.offset = PageLimit
    /\ Len(invocation.log) = 1 + FetchAttempts
    /\ invocation.tracks_info # <<>>
    /\ invocation.ret = <<>>


\* The name of request r has been chosen and the playlist not yet created.
NameChosen(r) == req[r].pc = "create"

\* The details lookup of request r gave a playlist name.
DetailsNamed(r) == req[r].playlist_details.found /\ req[r].playlist_details.name # <<>>

\* A details lookup is followed by the default-name event and the run goes
\* on to create the playlist.
LookupNeverAborts(r) ==
    LET tr == req[r].trace
    IN  \A k \in Positions(tr, {"call_details"}) :
          /\ k + 1 <= Len(tr)
          /\ tr[k + 1].kind = "ev_default_name"
          /\ \/ k + 1 = Len(tr) /\ req[r].pc = "create"
             \/ k + 2 <= Len(tr) /\ tr[k + 2].kind = "ev_creating"

\* C29 as stated: a name given to the generator is the destination name;
\* without one the destination name is the playlist's display name with the
\* suffix when the lookup gave a name, else the first track's name with
\* "and others" and the suffix; the lookup never ends the run.
C29_NameAsStated ==
    \A r \in DOMAIN req :
      /\ LookupNeverAborts(r)
      /\ NameChosen(r) =>
           req[r].final_youtube_playlist_name =
             IF req[r].youtube_playlist_name # <<>> THEN req[r].youtube_playlist_name
             ELSE IF DetailsNamed(r) THEN req[r].playlist_details.name \o S_onYouTube
             ELSE req[r].spotify_tracks[1][1] \o S_andOthers \o S_onYouTube

\* C29, amended: as stated, but a derived name (display name with suffix,
\* or first track's name with "and others" and the suffix) is the
\* destination name after sanitize_filename: unsafe characters removed,
\* whitespace collapsed and trimmed, cut to MaxNameLen characters.
C29_DerivedNameSanitized ==
    \A r \in DOMAIN req :
      /\ LookupNeverAborts(r)
      /\ NameChosen(r) =>
           req[r].final_youtube_playlist_name =
             IF req[r].youtube_playlist_name # <<>> THEN req[r].youtube_playlist_name
             ELSE IF DetailsNamed(r)
             THEN sanitize_filename(req[r].playlist_details.name \o S_onYouTube)
             ELSE sanitize_filename(req[r].spotify_tracks[1][1] \o S_andOthers \o S_onYouTube)

\* A run without a given name whose lookup failed: it goes on with the name
\* made from the first track.
C29_Witness ==
    /\ NameChosen(1)
    /\ req[1].youtube_playlist_name = <<>>
    /\ ~req[1].playlist_details.found
    /\ Positions(req[1].trace, {"call_details"}) # {}
    /\ req[1].final_youtube_playlist_name =
         <<"T","1"," ","a","n","d"," ","o","t","h","e","r","s"," ",
           "(","o","n"," ","Y","o","u","T","u","b","e",")">>


\* C30: when a request starts initialize_clients while the cached handle of
\* a provider exists but is unusable (a SpotifyClient whose sp is None, a
\* YouTubeClient whose youtube is None), that call builds the provider's
\* handle anew.
C30_UnusableHandleRebuilt ==
    [][\A r \in Requests :
         (req[r].pc = "initialize" /\ Acted(r)) =>
           /\ (spotify_handler # 0 /\ ~spotify_clients[spotify_handler]) =>
                /\ Len(spotify_clients') = Len(spotify_clients) + 1
                /\ spotify_handler' = Len(spotify_clients')
           /\ (youtube_handler # 0 /\ ~youtube_clients[youtube_handler]) =>
                req'[r].pc = "construct"]_vars


\* The global names a SpotifyClient whose sp is set; the global names a
\* YouTubeClient whose youtube is set.
UsableSpotify == spotify_handler # 0 /\ spotify_clients[spotify_handler]
UsableYouTube == youtube_handler # 0 /\ youtube_clients[youtube_handler]

\* C31: a SpotifyClient is constructed only when the cached one is not
\* usable, a YouTubeClient only when the cached one is not usable, and
\* while both cached clients are usable no step constructs a client or
\* changes which clients the globals name.
C31_HandlesBuiltOnceAndReused ==
    [][/\ Len(spotify_clients') > Len(spotify_clients) => ~UsableSpotify
       /\ Len(youtube_clients') > Len(youtube_clients) => ~UsableYouTube
       /\ (UsableSpotify /\ UsableYouTube) =>
            /\ spotify_handler' = spotify_handler
            /\ youtube_handler' = youtube_handler
            /\ Len(spotify_clients') = Len(spotify_clients)
            /\ Len(youtube_clients') = Len(youtube_clients)
            /\ UsableSpotify' /\ UsableYouTube']_vars

\* The first request has ended, and the second one is past initialize_clients
\* with the clients the first one built.
C31_Witness ==
    /\ req[1].pc = "done"
    /\ req[2].pc \notin {"route", "initialize", "construct", "authenticate", "done"}
    /\ Len(spotify_clients) = 1 /\ Len(youtube_clients) = 1
    /\ UsableSpotify /\ UsableYouTube


\* The entries of a trace that are calls to a provider.
CallKinds == {"call_get_tracks", "call_details", "call_create", "call_search", "call_add"}

\* C32: a request whose SpotifyClient was left without sp (its id or secret
\* is missing) takes no authentication step and makes no provider call, and
\* ends with one error event and the end-of-stream marker; a request whose
\* YouTube client-secrets file is missing ends, before any authentication,
\* with the fatal-initialization event and the marker.
C32_MissingCredentialsNoProviderCall ==
    [][\A r \in Requests :
         Acted(r) =>
           /\ (UsableSpotify = FALSE /\ spotify_handler # 0) =>
                /\ req[r].pc # "authenticate"
                /\ \A k \in 1..Len(NewEntries(r)) : NewEntries(r)[k].kind \notin CallKinds
                /\ req'[r].pc = "done" =>
                     /\ Len(req'[r].trace) = 2
                     /\ req'[r].trace[1].kind \in {"ev_no_spotify", "ev_fatal_init"}
                     /\ req'[r].trace[2] = EndOfStream
           /\ (req[r].pc = "construct" /\ req'[r].pc = "done") =>
                req'[r].trace = <<Event("ev_fatal_init", 0, 0), EndOfStream>>]_vars


\* C33: what sanitize_filename returns has at most MaxNameLen characters, no
\* whitespace at either end, no two whitespace characters in a row, only
\* word characters, spaces, hyphens and parentheses, and is returned
\* unchanged when the function is applied to it.
C33_SanitizedNameIsClean ==
    invocation.op = "sanitize" =>
      LET out == invocation.ret
      IN  /\ Len(out) <= MaxNameLen
          /\ out # <<>> => ~IsSpaceChar(out[1]) /\ ~IsSpaceChar(out[Len(out)])
          /\ \A k \in 1..(Len(out) - 1) : ~(IsSpaceChar(out[k]) /\ IsSpaceChar(out[k + 1]))
          /\ \A k \in 1..Len(out) :
               IsWordChar(out[k]) \/ out[k] = " " \/ out[k] \in {"-", "(", ")"}
          /\ invocation.again = out


Counters(rec) == <<rec.added_count, rec.not_found_count, rec.failed_to_add_count>>

\* C34: the three counters of a request are zero when its loop starts,
\* change only in a step of the request's own loop, and are left as they are
\* by every step of another request.
C34_CountersArePerRequest ==
    [][\A r \in Requests :
         /\ (req[r].pc # "search" /\ req[r].pc # "add" /\ req'[r].pc = "search") =>
              Counters(req'[r]) = <<0, 0, 0>>
         /\ Counters(req'[r]) # Counters(req[r]) => req[r].pc \in {"search", "add"}
         /\ \A q \in Requests \ {r} :
              Acted(q) => Counters(req'[r]) = Counters(req[r])]_vars

\* Two requests that have ended with different counts.
C34_Witness ==
    /\ req[1].pc = "done" /\ req[2].pc = "done"
    /\ Counters(req[1]) = <<1, 0, 0>>
    /\ Counters(req[2]) = <<0, 1, 0>>


CounterSum(rec) == rec.added_count + rec.not_found_count + rec.failed_to_add_count

\* The iterations of a trace that have ended without an abort.
Completed(tr) == Cardinality(Positions(tr, IterationEndKinds))

\* C35: the three counters always sum to the number of iterations that have
\* ended without an abort, and to the number of tracks when the summary is
\* reached without an abort; a step that ends an iteration adds 1 to exactly
\* one counter (to not_found after a search error), a step that aborts adds
\* nothing, and no counter ever goes down.
C35_CounterConservation ==
    /\ [](\A r \in DOMAIN req :
            LET tr == req[r].trace
            IN  /\ CounterSum(req[r]) = Completed(tr)
                /\ req[r].pc \in {"search", "add"} => CounterSum(req[r]) = req[r].i - 1
                /\ (Positions(tr, {"ev_complete"}) # {} /\ Positions(tr, AbortKinds) = {}) =>
                     CounterSum(req[r]) = Len(req[r].spotify_tracks))
    /\ [][\A r \in DOMAIN req :
           LET new == NewEntries(r)
               ended == Positions(new, IterationEndKinds)
               old == Counters(req[r])
               now == Counters(req'[r])
           IN  Acted(r) =>
                 /\ \A c \in 1..3 : now[c] >= old[c]
                 /\ Cardinality(ended) <= 1
                 /\ Cardinality({c \in 1..3 : now[c] # old[c]}) = Cardinality(ended)
                 /\ CounterSum(req'[r]) = CounterSum(req[r]) + Cardinality(ended)
                 /\ Positions(new, AbortKinds) # {} => now = old
                 /\ Positions(new, {"ev_api_error_search", "ev_unexpected_search",
                                    "ev_not_found"}) # {} => now[2] = old[2] + 1
                 /\ Positions(new, {"ev_added"}) # {} => now[1] = old[1] + 1
                 /\ Positions(new, {"ev_failed", "ev_api_error_add",
                                    "ev_unexpected_add"}) # {} => now[3] = old[3] + 1]_vars

\* A run of three tracks that reached the summary without an abort with
\* one track added, one not found and one that failed to be added.
C35_Witness ==
    /\ req[1].pc = "done"
    /\ Counters(req[1]) = <<1, 1, 1>>
    /\ Len(req[1].spotify_tracks) = 3
    /\ Positions(req[1].trace, {"ev_complete"}) # {}
    /\ Positions(req[1].trace, AbortKinds) = {}


\* C36: a request that built its own YouTube client and authenticated it
\* (initialize_clients returned for it) never yields the "YouTube client is
\* not available" error nor the "YouTube service became unavailable" abort.
C36_OwnClientStaysAvailable ==
    \A r \in Requests :
      LET tr == req[r].trace
      IN  (req[r].auth_client # 0 /\ Positions(tr, {"ev_fatal_init"}) = {}) =>
            Positions(tr, {"ev_no_youtube", "ev_unavailable"}) = {}


\* C37: once a request without a given name has chosen its name, the name
\* is not the generic default: the request has tracks and a playlist id, and
\* the name is made from the playlist's name or from the first track's.
C37_DefaultNameNeverUsed ==
    \A r \in DOMAIN req :
      (req[r].youtube_playlist_name = <<>> /\ Positions(req[r].trace, {"ev_default_name"}) # {}) =>
        /\ req[r].final_youtube_playlist_name # DefaultPlaylistName
        /\ req[r].spotify_tracks # <<>>
        /\ extract_playlist_id_from_url(req[r].spotify_playlist_url) # NoId
        /\ \E made \in {req[r].playlist_details.name, req[r].spotify_tracks[1][1] \o S_andOthers} :
             /\ made # <<>>
             /\ req[r].final_youtube_playlist_name = sanitize_filename(made \o S_onYouTube)

\* A request without a given name that created its playlist under the name
\* made from the source playlist's.
C37_Witness ==
    /\ req[1].youtube_playlist_name = <<>>
    /\ Positions(req[1].trace, {"ev_created"}) # {}
    /\ req[1].playlist_details.found
    /\ req[1].final_youtube_playlist_name =
         <<"H","i","t","s"," ","(","o","n"," ","Y","o","u","T","u","b","e",")">>

============================================================================
